---------------------------- MODULE Spec2Model ----------------------------
(***************************************************************************)
(* Model of the embedded-boundary conductor generator of WARP              *)
(* (scripts/generateconductors.py, scripts/multigrid.py).                  *)
(*                                                                         *)
(* Numbers.  Lengths are integers counted in ticks, a lattice far coarser  *)
(* than the 1e-9 .. 1e-13 fuzz values of the code; a fuzz value is         *)
(* therefore the smallest positive lattice quantity (1 tick), so that      *)
(* `x < fuzz` on the lattice reads `x < 1`.  Quotients (a distance         *)
(* divided by a cell size) are kept exactly, as pairs <<num, den>> with    *)
(* den > 0.  Angles are integer degrees.                                   *)
(***************************************************************************)
EXTENDS Integers, Sequences, FiniteSets, TLC

VARIABLES
  query,                \* a point query on a shape: its inputs and its result
  grid,                 \* the Grid object (mesh, dlist, dlistinstalled)
  conductors,           \* the solver's ConductorType object
  rzdb,                 \* the conductor data kept by the RZ solver's grid
  solver,               \* the registered MultiGrid solver, if any
  installedconductors,  \* module-level list of installed assemblies
  delta,                \* a Delta record under normalize
  srfrv,                \* a tabulated surface of revolution under construction
  heap,                 \* ConductorExtent objects and the arrays they hold
  nextcondid,           \* Assembly.nextcondid
  listofallconductors,  \* module-level list of every assembly constructed
  griddzkludge,         \* _griddzkludge[0]
  workers               \* per worker or rank: where it is in its call

\* the state of shapes, extents and sampling workers
shapevars ==
  <<heap, nextcondid, listofallconductors, griddzkludge, workers>>

vars == <<query, grid, conductors, rzdb, solver, installedconductors,
          delta, srfrv, shapevars>>

\* value of a variable that the specification at hand does not use
Idle == <<>>

ShapesIdle ==
  /\ heap = Idle /\ nextcondid = Idle /\ listofallconductors = Idle
  /\ griddzkludge = Idle /\ workers = Idle

-----------------------------------------------------------------------------
(* Numeric helpers (numpy ufuncs used by the code). *)

Abs(x) == IF x < 0 THEN -x ELSE x
Max2(a, b) == IF a < b THEN b ELSE a
Min2(a, b) == IF a > b THEN b ELSE a

\* sqrt on the lattice: exact for perfect squares, rounded down otherwise
RECURSIVE sqrt(_)
sqrt(n) ==
  IF n < 2 THEN n
  ELSE LET s == 2 * sqrt(n \div 4)
       IN  IF (s + 1) * (s + 1) > n THEN s ELSE s + 1

\* top.largepos, the "no surface" / "unbounded" value
largepos == 10000
\* numpy.pi, in degrees
pi == 180

logical_not(a) == a = 0
logical_and(a, b) == (a # 0) /\ (b # 0)
logical_or(a, b) == (a # 0) \/ (b # 0)
\* a Python bool used as a number
BoolNum(b) == IF b THEN 1 ELSE 0

-----------------------------------------------------------------------------
(* Assemblies: primitives and the four composites. *)

Plane(z0, zsign, cent, v, condid, neumann) ==
  [kind |-> "Plane", z0 |-> z0, zsign |-> zsign, cent |-> cent,
   voltage |-> v, condid |-> condid, neumann |-> neumann]

Box(size, cent, v, condid, neumann) ==
  [kind |-> "Box", size |-> size, cent |-> cent,
   voltage |-> v, condid |-> condid, neumann |-> neumann]

Sphere(radius, cent, v, condid, neumann) ==
  [kind |-> "Sphere", radius |-> radius, cent |-> cent,
   voltage |-> v, condid |-> condid, neumann |-> neumann]

AssemblyNot(l) ==
  [kind |-> "Not", left |-> l, cent |-> l.cent,
   voltage |-> 0, condid |-> l.condid, neumann |-> l.neumann]

AssemblyAnd(l, r) ==
  [kind |-> "And", left |-> l, right |-> r, cent |-> l.cent,
   voltage |-> 0, condid |-> l.condid, neumann |-> l.neumann]

AssemblyPlus(l, r) ==
  [kind |-> "Plus", left |-> l, right |-> r, cent |-> l.cent,
   voltage |-> 0, condid |-> l.condid, neumann |-> l.neumann]

AssemblyMinus(l, r) ==
  [kind |-> "Minus", left |-> l, right |-> r, cent |-> l.cent,
   voltage |-> 0, condid |-> l.condid, neumann |-> l.neumann]

IsBinary(a) == a.kind \in {"And", "Plus", "Minus"}
IsPrimitive(a) == a.kind \in {"Plane", "Box", "Sphere"}

-----------------------------------------------------------------------------
(* ConductorExtent *)

ConductorExtent(mins, maxs) == [mins |-> mins, maxs |-> maxs]

\* the extent that excludes nothing
FullDomain ==
  ConductorExtent(<<-largepos, -largepos, -largepos>>,
                  <<largepos, largepos, largepos>>)

minimum3(a, b) == [i \in 1..3 |-> Min2(a[i], b[i])]
maximum3(a, b) == [i \in 1..3 |-> Max2(a[i], b[i])]

Extent_neg(e) ==
  ConductorExtent(<<-largepos, -largepos, -largepos>>,
                  <<largepos, largepos, largepos>>)
Extent_add(e, right) ==
  ConductorExtent(minimum3(e.mins, right.mins), maximum3(e.maxs, right.maxs))
Extent_mul(e, right) ==
  ConductorExtent(maximum3(e.mins, right.mins), minimum3(e.maxs, right.maxs))
\* a subtraction that keeps the bounds of the right operand
Extent_sub_right(e, right) == ConductorExtent(right.mins, right.maxs)

Extent_sub(e, right) == ConductorExtent(e.mins, e.maxs)

createextent(a, mins, maxs) ==
  ConductorExtent([i \in 1..3 |-> a.cent[i] + mins[i]],
                  [i \in 1..3 |-> a.cent[i] + maxs[i]])

\* Plane.__init__: an untilted plane gets the zero-thickness extent z0..z0
PlaneExtent(a) ==
  createextent(a, <<-largepos, -largepos, a.z0>>, <<largepos, largepos, a.z0>>)

BoxExtent(a) ==
  createextent(a,
    <<-(a.size[1] \div 2), -(a.size[2] \div 2), -(a.size[3] \div 2)>>,
    <<a.size[1] \div 2, a.size[2] \div 2, a.size[3] \div 2>>)

SphereExtent(a) ==
  createextent(a, <<-a.radius, -a.radius, -a.radius>>,
               <<a.radius, a.radius, a.radius>>)

\* ZSrfrvOut.__init__: -rmax..rmax in x and y, zmin..zmax in z
SrfrvExtent(a) ==
  createextent(a, <<-a.rmax, -a.rmax, a.zmin>>, <<a.rmax, a.rmax, a.zmax>>)

RECURSIVE getextent(_)
getextent(a) ==
  CASE a.kind = "Plane" -> PlaneExtent(a)
    [] a.kind = "Box"   -> BoxExtent(a)
    [] a.kind = "Sphere" -> SphereExtent(a)
    [] a.kind = "ZSrfrvOut" -> SrfrvExtent(a)
    [] a.kind = "Not"   -> Extent_neg(getextent(a.left))
    [] a.kind = "And"   -> Extent_mul(getextent(a.left), getextent(a.right))
    [] a.kind = "Plus"  -> Extent_add(getextent(a.left), getextent(a.right))
    [] a.kind = "Minus" -> Extent_sub(getextent(a.left), getextent(a.right))

InExtent(e, p) == \A i \in 1..3 : e.mins[i] <= p[i] /\ p[i] <= e.maxs[i]

-----------------------------------------------------------------------------
(* The compiled distance generators of the primitives (f3d package):       *)
(* signed distance to the nearest surface, positive outside the conductor. *)

\* plane normal to z at zcent+z0; the conductor is the z > z0 side for zsign > 0
planeconductord(a, p) ==
  IF a.zsign > 0 THEN (a.cent[3] + a.z0) - p[3]
                 ELSE p[3] - (a.cent[3] + a.z0)

boxconductord(a, p) ==
  LET e == [i \in 1..3 |-> Abs(p[i] - a.cent[i]) - (a.size[i] \div 2)]
      o == [i \in 1..3 |-> Max2(e[i], 0)]
  IN  IF \A i \in 1..3 : e[i] <= 0
        THEN Max2(e[1], Max2(e[2], e[3]))
        ELSE sqrt(o[1] * o[1] + o[2] * o[2] + o[3] * o[3])

\* distance to the centre less the radius
sphereconductord(a, p) ==
  sqrt((p[1] - a.cent[1]) * (p[1] - a.cent[1])
       + (p[2] - a.cent[2]) * (p[2] - a.cent[2])
       + (p[3] - a.cent[3]) * (p[3] - a.cent[3])) - a.radius

generatord(a, p) ==
  CASE a.kind = "Plane"  -> planeconductord(a, p)
    [] a.kind = "Box"    -> boxconductord(a, p)
    [] a.kind = "Sphere" -> sphereconductord(a, p)

-----------------------------------------------------------------------------
(* Distance *)

Distance_neg(d) == -d
Distance_mul(d, right) == IF d < right THEN right ELSE d
Distance_add(d, right) ==
  LET dd == IF d > right THEN right ELSE d
      d1 == IF d < 0 /\ right >= 0 THEN d ELSE dd
  IN  IF d >= 0 /\ right < 0 THEN right ELSE d1
Distance_sub_keepinside(d, right) ==
  LET rdistance == -right
      d1 == IF rdistance >= 0 /\ d >= 0
              THEN sqrt(rdistance * rdistance + d * d) ELSE d
  IN  IF rdistance < 0 /\ d <= 0 THEN Max2(rdistance, d) ELSE d1
Distance_sub(d, right) ==
  LET rdistance == -right
      d1 == IF rdistance >= 0 /\ d >= 0
              THEN sqrt(rdistance * rdistance + d * d) ELSE d
      d2 == IF rdistance >= 0 /\ d <= 0 THEN rdistance ELSE d1
  IN  IF rdistance < 0 /\ d <= 0 THEN Max2(rdistance, d) ELSE d2

RECURSIVE distance(_, _)
distance(a, p) ==
  CASE IsPrimitive(a)   -> generatord(a, p)
    [] a.kind = "Not"   -> Distance_neg(distance(a.left, p))
    [] a.kind = "And"   -> Distance_mul(distance(a.left, p), distance(a.right, p))
    [] a.kind = "Plus"  -> Distance_add(distance(a.left, p), distance(a.right, p))
    [] a.kind = "Minus" -> Distance_sub(distance(a.left, p), distance(a.right, p))

-----------------------------------------------------------------------------
(* IsInside: the flag is the conductor id where inside, 0 elsewhere. *)

IsInside(isinside, condid, aura) ==
  [isinside |-> isinside * condid, condid |-> condid, aura |-> aura]

\* the inside test without the surface itself
IsInsideGen_open(a, p, aura) ==
  [isinside |-> IF generatord(a, p) < aura THEN a.condid ELSE 0,
   condid |-> a.condid, aura |-> aura]

IsInsideGen(a, p, aura) ==
  [isinside |-> IF generatord(a, p) <= aura THEN a.condid ELSE 0,
   condid |-> a.condid, aura |-> aura]

IsInside_neg(s) ==
  IsInside(BoolNum(logical_not(s.isinside)), s.condid, s.aura)
IsInside_mul(s, right) ==
  IsInside(BoolNum(logical_and(s.isinside, right.isinside)), s.condid, s.aura)
IsInside_add(s, right) ==
  IsInside(BoolNum(logical_or(s.isinside, right.isinside)), s.condid, s.aura)
IsInside_sub(s, right) ==
  IsInside(BoolNum(logical_and(s.isinside,
                               BoolNum(logical_not(right.isinside)))),
           s.condid, s.aura)

RECURSIVE isinside(_, _, _)
isinside(a, p, aura) ==
  CASE IsPrimitive(a)   -> IsInsideGen(a, p, aura)
    [] a.kind = "Not"   -> IsInside_neg(isinside(a.left, p, aura))
    [] a.kind = "And"   -> IsInside_mul(isinside(a.left, p, aura),
                                        isinside(a.right, p, aura))
    [] a.kind = "Plus"  -> IsInside_add(isinside(a.left, p, aura),
                                        isinside(a.right, p, aura))
    [] a.kind = "Minus" -> IsInside_sub(isinside(a.left, p, aura),
                                        isinside(a.right, p, aura))

-----------------------------------------------------------------------------
(* Intercept: where a trajectory most recently crossed a surface.  The     *)
(* compiled generators are modelled for trajectories parallel to z.        *)

Intercept(xi, yi, zi, itheta, iphi, conductor, condid) ==
  [xi |-> xi, yi |-> yi, zi |-> zi, itheta |-> itheta, iphi |-> iphi,
   conductor |-> conductor, condid |-> condid]

NoIntercept(a) == Intercept(largepos, largepos, largepos, 0, 0, a, a.condid)

\* the trajectory line meets the plane at z = zcent+z0; the outward normal
\* points to -z (theta = pi) when the conductor is the z > z0 side
planeintercept(a, p, v) ==
  Intercept(p[1], p[2], a.cent[3] + a.z0,
            IF a.zsign > 0 THEN pi ELSE 0, 0, a, a.condid)

\* going back along the trajectory from p, the first face of the box met
boxintercept(a, p, v) ==
  LET zlo == a.cent[3] - (a.size[3] \div 2)
      zhi == a.cent[3] + (a.size[3] \div 2)
      inxy == /\ Abs(p[1] - a.cent[1]) <= a.size[1] \div 2
              /\ Abs(p[2] - a.cent[2]) <= a.size[2] \div 2
  IN  IF ~inxy THEN NoIntercept(a)
      ELSE IF v[3] > 0
        THEN IF p[3] >= zhi THEN Intercept(p[1], p[2], zhi, 0, 0, a, a.condid)
             ELSE IF p[3] >= zlo
               THEN Intercept(p[1], p[2], zlo, pi, 0, a, a.condid)
               ELSE NoIntercept(a)
        ELSE IF p[3] <= zlo THEN Intercept(p[1], p[2], zlo, pi, 0, a, a.condid)
             ELSE IF p[3] <= zhi
               THEN Intercept(p[1], p[2], zhi, 0, 0, a, a.condid)
               ELSE NoIntercept(a)

generatori(a, p, v) ==
  IF a.kind = "Plane" THEN planeintercept(a, p, v) ELSE boxintercept(a, p, v)

\* fuzz value: points less than this from the surface are on the surface
surffuzz == 1

Intercept_neg(s) ==
  Intercept(s.xi, s.yi, s.zi, s.itheta + pi, s.iphi, s.conductor, s.condid)

magsq(s, p) ==
  (p[1] - s.xi) * (p[1] - s.xi) + (p[2] - s.yi) * (p[2] - s.yi)
    + (p[3] - s.zi) * (p[3] - s.zi)

\* distances from the combined conductor to the two candidate intercepts
CandidateDist(cond, s) == Abs(distance(cond, <<s.xi, s.yi, s.zi>>))

binaryop(s, right, cond, addpi, p) ==
  LET si == CandidateDist(cond, s)
      ri == CandidateDist(cond, right)
      ds == magsq(s, p)
      dr == magsq(right, p)
      cc0 == si < ri
      cc == IF si < surffuzz /\ ri < surffuzz THEN ds < dr ELSE cc0
      dd == Min2(si, ri) < surffuzz
  IN  Intercept(IF dd THEN (IF cc THEN s.xi ELSE right.xi) ELSE largepos,
                IF dd THEN (IF cc THEN s.yi ELSE right.yi) ELSE largepos,
                IF dd THEN (IF cc THEN s.zi ELSE right.zi) ELSE largepos,
                IF dd THEN (IF cc THEN s.itheta ELSE right.itheta + addpi)
                      ELSE 0,
                IF dd THEN (IF cc THEN s.iphi ELSE right.iphi) ELSE 0,
                cond, s.condid)

Intercept_mul(s, right, p) ==
  binaryop(s, right, AssemblyAnd(s.conductor, right.conductor), 0, p)
Intercept_add(s, right, p) ==
  binaryop(s, right, AssemblyPlus(s.conductor, right.conductor), 0, p)
Intercept_sub(s, right, p) ==
  binaryop(s, right, AssemblyMinus(s.conductor, right.conductor), pi, p)

RECURSIVE intercept(_, _, _)
intercept(a, p, v) ==
  CASE IsPrimitive(a)   -> generatori(a, p, v)
    [] a.kind = "Not"   -> Intercept_neg(intercept(a.left, p, v))
    [] a.kind = "And"   -> Intercept_mul(intercept(a.left, p, v),
                                         intercept(a.right, p, v), p)
    [] a.kind = "Plus"  -> Intercept_add(intercept(a.left, p, v),
                                         intercept(a.right, p, v), p)
    [] a.kind = "Minus" -> Intercept_sub(intercept(a.left, p, v),
                                         intercept(a.right, p, v), p)

-----------------------------------------------------------------------------
(* Exact quotients: <<num, den>> with den > 0, never reduced. *)

Rat(n) == <<n, 1>>
RNeg(a) == <<-a[1], a[2]>>
RDiv(a, d) == <<a[1], a[2] * d>>
RLess(a, b) == a[1] * b[2] < b[1] * a[2]
REq(a, b) == a[1] * b[2] = b[1] * a[2]
RAbs(a) == <<Abs(a[1]), a[2]>>
RSub(a, b) == <<a[1] * b[2] - b[1] * a[2], a[2] * b[2]>>

\* the fuzz values 1.e-9 and 1.e-13 of normalized distances: positive, below
\* every lattice quantity, 1.e-13 below 1.e-9
fuzz9 == <<1, 1000>>
fuzz13 == <<1, 2000>>
\* the 1.e-10 that unnormalized distances are compared with: positive, below
\* one tick
fuzz10 == <<1, 2>>
RLargepos == Rat(largepos)

-----------------------------------------------------------------------------
(* Delta: per point, the distances to the surface along -x,+x,-y,+y,-z,+z  *)
(* with the voltage and the conductor id seen in each direction.  The      *)
(* compiled generators (f3d package) are modelled for Box and for the      *)
(* untilted Plane.                                                         *)

Dirs == 1..6
AxisOf(k) == (k + 1) \div 2

\* along axis i: inside the closed box both distances are <= 0; outside, the
\* direction looking at the box holds the distance to the face, provided the
\* line along the axis meets the box; everything else is largepos
boxconductorf(a, p) ==
  LET h(i) == a.size[i] \div 2
      lo(i) == a.cent[i] - h(i)
      hi(i) == a.cent[i] + h(i)
      within(i) == lo(i) <= p[i] /\ p[i] <= hi(i)
      meets(i) == \A j \in (1..3) \ {i} : within(j)
      minus(i) == IF ~meets(i) THEN largepos
                  ELSE IF within(i) THEN lo(i) - p[i]
                  ELSE IF p[i] > hi(i) THEN p[i] - hi(i) ELSE largepos
      plus(i) == IF ~meets(i) THEN largepos
                 ELSE IF within(i) THEN p[i] - hi(i)
                 ELSE IF p[i] < lo(i) THEN lo(i) - p[i] ELSE largepos
  IN  [k \in Dirs |-> Rat(IF k % 2 = 1 THEN minus(AxisOf(k)) ELSE plus(AxisOf(k)))]

\* the conductor is the z > z0 side for zsign > 0; a point in the conductor
\* sees no surface in x and y and none looking away from the plane
planeconductorf(a, p) ==
  LET zs == a.cent[3] + a.z0
      d == IF a.zsign > 0 THEN zs - p[3] ELSE p[3] - zs
      toward == IF a.zsign > 0 THEN 6 ELSE 5
      away == IF a.zsign > 0 THEN 5 ELSE 6
  IN  [k \in Dirs |->
         Rat(IF d > 0 THEN (IF k = toward THEN d ELSE largepos)
                    ELSE (IF k = away THEN d ELSE -largepos))]

generatorf(a, p) ==
  IF a.kind = "Plane" THEN planeconductorf(a, p) ELSE boxconductorf(a, p)

\* point data of a Delta; err records the failed "cannot be mixed" assertion
Delta(dels, vs, ns, neumann) ==
  [dels |-> dels, vs |-> vs, ns |-> ns, neumann |-> neumann, err |-> FALSE]

DeltaError == [Delta(<<>>, <<>>, <<>>, FALSE) EXCEPT !.err = TRUE]

DeltaGen(a, p) ==
  Delta(generatorf(a, p), [k \in Dirs |-> a.voltage],
        [k \in Dirs |-> a.condid], a.neumann)

\* numpy.choose(c, (x, y)): y where c, x elsewhere
choose(c, x, y) == [k \in Dirs |-> IF c[k] THEN y[k] ELSE x[k]]

Delta_neg(s) ==
  IF s.err THEN DeltaError
  ELSE Delta([k \in Dirs |-> RNeg(s.dels[k])], s.vs, s.ns, s.neumann)

Mixed(s, right) == s.err \/ right.err \/ s.neumann # right.neumann

\* 'and' that takes the right operand where the distances are equal
Delta_mul_tieright(s, right) ==
  IF Mixed(s, right) THEN DeltaError
  ELSE LET c == [k \in Dirs |-> ~RLess(right.dels[k], s.dels[k])]
       IN  Delta(choose(c, s.dels, right.dels), choose(c, s.vs, right.vs),
                 choose(c, s.ns, right.ns), right.neumann)

Delta_mul(s, right) ==
  IF Mixed(s, right) THEN DeltaError
  ELSE LET c == [k \in Dirs |-> RLess(s.dels[k], right.dels[k])]
       IN  Delta(choose(c, s.dels, right.dels), choose(c, s.vs, right.vs),
                 choose(c, s.ns, right.ns), right.neumann)

Delta_add(s, right) ==
  IF Mixed(s, right) THEN DeltaError
  ELSE LET c == [k \in Dirs |-> RLess(right.dels[k], s.dels[k])]
       IN  Delta(choose(c, s.dels, right.dels), choose(c, s.vs, right.vs),
                 choose(c, s.ns, right.ns), right.neumann)

\* subtraction without the zero thickness test
Coincide_never(x, y) == FALSE

\* the zero thickness shell: directions where the two distances coincide
Coincide(x, y) == RLess(RAbs(RSub(x, y)), fuzz10)

\* subtraction that leaves the zero thickness shell in place
Delta_sub_shell(s, right) ==
  IF Mixed(s, right) THEN DeltaError
  ELSE LET rdels == [k \in Dirs |-> RNeg(right.dels[k])]
           c == [k \in Dirs |-> RLess(s.dels[k], rdels[k])]
       IN  Delta(choose(c, s.dels, rdels), choose(c, s.vs, right.vs),
                 choose(c, s.ns, right.ns), right.neumann)

Delta_sub(s, right) ==
  IF Mixed(s, right) THEN DeltaError
  ELSE LET rdels == [k \in Dirs |-> RNeg(right.dels[k])]
           c == [k \in Dirs |-> RLess(s.dels[k], rdels[k])]
           chosen == choose(c, s.dels, rdels)
       IN  Delta([k \in Dirs |-> IF Coincide(s.dels[k], right.dels[k])
                                    THEN RLargepos ELSE chosen[k]],
                 choose(c, s.vs, right.vs), choose(c, s.ns, right.ns),
                 right.neumann)

RECURSIVE griddistance(_, _)
griddistance(a, p) ==
  CASE IsPrimitive(a)   -> DeltaGen(a, p)
    [] a.kind = "Not"   -> Delta_neg(griddistance(a.left, p))
    [] a.kind = "And"   -> Delta_mul(griddistance(a.left, p),
                                     griddistance(a.right, p))
    [] a.kind = "Plus"  -> Delta_add(griddistance(a.left, p),
                                     griddistance(a.right, p))
    [] a.kind = "Minus" -> Delta_sub(griddistance(a.left, p),
                                     griddistance(a.right, p))

-----------------------------------------------------------------------------
(* Delta.normalize, setparity, clean on the distances of one point. *)

Spacing(dx, dy, dz) == <<dx, dx, dy, dy, dz, dz>>

RMinOf(dels) ==
  CHOOSE m \in {dels[k] : k \in Dirs} : \A k \in Dirs : ~RLess(dels[k], m)
RMaxOf(dels) ==
  CHOOSE m \in {dels[k] : k \in Dirs} : \A k \in Dirs : ~RLess(m, dels[k])

\* a value between -fuzz and 0 in direction i1 is put on the surface: the
\* facing direction i0 becomes 0 and i1 becomes deep inside
fixneumannzeros(dels, i0, i1, fuzz) ==
  LET near == RLess(RNeg(fuzz), dels[i1]) /\ RLess(dels[i1], Rat(0))
  IN  IF near THEN [dels EXCEPT ![i0] = Rat(0), ![i1] = Rat(-2)] ELSE dels

\* the fix-ups without the pass over the straddling points
NeumannFixups_nostraddle(dels0) ==
  LET fuzz == fuzz13
      d1 == fixneumannzeros(dels0, 1, 2, fuzz)
      d2 == fixneumannzeros(d1, 2, 1, fuzz)
      d3 == fixneumannzeros(d2, 3, 4, fuzz)
      d4 == fixneumannzeros(d3, 4, 3, fuzz)
      d5 == fixneumannzeros(d4, 5, 6, fuzz)
      d6 == fixneumannzeros(d5, 6, 5, fuzz)
      d7 == [k \in Dirs |->
               IF RLess(RSub(Rat(1), fuzz), d6[k]) /\ RLess(d6[k], Rat(1))
                 THEN Rat(1) ELSE d6[k]]
      onsurface == \E k \in Dirs : d7[k][1] = 0
  IN  [k \in Dirs |->
         IF onsurface /\ RLess(RSub(fuzz, Rat(1)), d7[k])
                      /\ RLess(d7[k], Rat(0))
           THEN Rat(-2) ELSE d7[k]]

NeumannFixups(dels0) ==
  LET fuzz == fuzz13
      d1 == fixneumannzeros(dels0, 1, 2, fuzz)
      d2 == fixneumannzeros(d1, 2, 1, fuzz)
      d3 == fixneumannzeros(d2, 3, 4, fuzz)
      d4 == fixneumannzeros(d3, 4, 3, fuzz)
      d5 == fixneumannzeros(d4, 5, 6, fuzz)
      d6 == fixneumannzeros(d5, 6, 5, fuzz)
      d7 == [k \in Dirs |->
               IF RLess(RSub(Rat(1), fuzz), d6[k]) /\ RLess(d6[k], Rat(1))
                 THEN Rat(1) ELSE d6[k]]
      straddles == RLess(RMinOf(d7), Rat(0)) /\ RLess(Rat(0), RMaxOf(d7))
      d8 == [k \in Dirs |->
               IF straddles /\ RLess(Rat(0), d7[k]) THEN Rat(-2) ELSE d7[k]]
      onsurface == \E k \in Dirs : d8[k][1] = 0
  IN  [k \in Dirs |->
         IF onsurface /\ RLess(RSub(fuzz, Rat(1)), d8[k])
                      /\ RLess(d8[k], Rat(0))
           THEN Rat(-2) ELSE d8[k]]

\* normalize dividing by the cell sizes in the order dx,dy,dz,dx,dy,dz
normalize_axisorder(dels, neumann, dx, dy, dz) ==
  LET scaled == [k \in Dirs |-> RDiv(dels[k], <<dx, dy, dz, dx, dy, dz>>[k])]
  IN  IF neumann THEN NeumannFixups(scaled) ELSE scaled

normalize(dels, neumann, dx, dy, dz) ==
  LET scaled == [k \in Dirs |-> RDiv(dels[k], Spacing(dx, dy, dz)[k])]
  IN  IF neumann THEN NeumannFixups(scaled) ELSE scaled

\* parity of a point that is neither interior nor a cut cell
farparity == 999

\* the compiled classification: a point with every distance below
\* fuzzsign*fuzz0 is inside, and interior (-1) unless deeper than dfill; a
\* point with a distance in [fuzzsign*fuzz0, 1-fuzz1) is a cut cell and gets
\* the parity of ix+iy+iz; every other point keeps the far value
setconductorparity(ix, iy, iz, dels, fuzz0, fuzz1, fuzzsign, dfill) ==
  LET thr == <<fuzzsign * fuzz0[1], fuzz0[2]>>
      inside == \A k \in Dirs : RLess(dels[k], thr)
      shallow == \E k \in Dirs : RLess(Rat(-dfill), dels[k])
      cut == \E k \in Dirs : /\ ~RLess(dels[k], thr)
                             /\ RLess(dels[k], RSub(Rat(1), fuzz1))
  IN  IF inside THEN (IF shallow THEN -1 ELSE farparity)
      ELSE IF cut THEN (ix + iy + iz) % 2 ELSE farparity

\* setparity that keeps the caller's dfill for Neumann data
setparity_keepdfill(ix, iy, iz, dels, neumann, dfill, fuzzsign) ==
  setconductorparity(ix, iy, iz, dels,
                     IF neumann THEN Rat(0) ELSE fuzz9, fuzz9, fuzzsign,
                     dfill)

setparity(ix, iy, iz, dels, neumann, dfill, fuzzsign) ==
  setconductorparity(ix, iy, iz, dels,
                     IF neumann THEN Rat(0) ELSE fuzz9, fuzz9, fuzzsign,
                     IF neumann THEN 0 ELSE dfill)

\* clean that drops nothing
clean_keepall(pts) == pts

\* clean keeps the points with parity < 2
clean(pts) == SelectSeq(pts, LAMBDA q : q.parity < 2)

-----------------------------------------------------------------------------
(* Grid: the mesh, its multigrid levels and the sampling of an assembly.   *)
(* Serial runs (lparallel false), zbeam = 0, zscale = 1.                   *)

MaxLevels == 2

\* the compiled coarsening table: each level doubles the stride of the one
\* before while the cell counts stay even, on the whole z range (serial)
RECURSIVE CountLevels(_, _, _, _)
CountLevels(nx, ny, nz, sofar) ==
  IF sofar < MaxLevels /\ nx % 2 = 0 /\ ny % 2 = 0 /\ nz % 2 = 0
     /\ nx > 0 /\ nz > 0
    THEN CountLevels(nx \div 2, ny \div 2, nz \div 2, sofar + 1)
    ELSE sofar

RECURSIVE Pow2(_)
Pow2(i) == IF i = 0 THEN 1 ELSE 2 * Pow2(i - 1)

getmglevels(nx, ny, nz) ==
  LET levels == CountLevels(nx, ny, nz, 1)
  IN  [levels |-> levels,
       leveliz |-> [i \in 0..(levels - 1) |-> 0],
       levelnz |-> [i \in 0..(levels - 1) |-> nz \div Pow2(i)],
       levellx |-> [i \in 0..(levels - 1) |-> Pow2(i)],
       levelly |-> [i \in 0..(levels - 1) |-> Pow2(i)],
       levellz |-> [i \in 0..(levels - 1) |-> Pow2(i)]]

\* Grid.__init__ on the arguments c: crop defaults are resolved by the
\* caller, symmetries clamp the lower bounds, the level table is computed
Grid(c) ==
  LET clampy == c.l2symtry \/ c.l4symtry
      clampx == ~c.l2symtry /\ c.l4symtry
      ymin == IF clampy /\ c.ymin < 0 THEN 0 ELSE c.ymin
      ymmin == IF clampy /\ c.ymmin < 0 THEN 0 ELSE c.ymmin
      xmin == IF clampx /\ c.xmin < 0 THEN 0 ELSE c.xmin
      xmmin == IF clampx /\ c.xmmin < 0 THEN 0 ELSE c.xmmin
      dx == (c.xmmax - xmmin) \div c.nx
      dy == IF c.ny > 0 THEN (c.ymmax - ymmin) \div c.ny ELSE dx
      dz == IF c.nz > 0 THEN (c.zmmax - c.zmmin) \div c.nz
                        ELSE c.zmmax - c.zmmin
      mg == getmglevels(c.nx, IF c.ny > 0 THEN c.ny ELSE c.nx, c.nz)
  IN  [nx |-> c.nx, ny |-> c.ny, nz |-> c.nz,
       xmmin |-> xmmin, xmmax |-> c.xmmax,
       ymmin |-> ymmin, ymmax |-> c.ymmax,
       zmmin |-> c.zmmin, zmmax |-> c.zmmax,
       xmin |-> xmin, xmax |-> c.xmax, ymin |-> ymin, ymax |-> c.ymax,
       zmin |-> c.zmin, zmax |-> c.zmax,
       dx |-> dx, dy |-> dy, dz |-> dz,
       mglevels |-> IF c.mgmaxlevels # 0 THEN c.mgmaxlevels ELSE mg.levels,
       mgleveliz |-> mg.leveliz, mglevelnz |-> mg.levelnz,
       mglevellx |-> mg.levellx, mglevelly |-> mg.levelly,
       mglevellz |-> mg.levellz,
       dlist |-> <<>>, dlistinstalled |-> <<>>, error |-> FALSE]

getmeshsize(g, mglevel) ==
  [dx |-> g.dx * g.mglevellx[mglevel],
   dy |-> g.dy * g.mglevelly[mglevel],
   dz |-> g.dz * g.mglevellz[mglevel],
   nx |-> g.nx \div g.mglevellx[mglevel],
   ny |-> g.ny \div g.mglevelly[mglevel],
   nzlocal |-> g.mglevelnz[mglevel],
   iz |-> g.mgleveliz[mglevel]]

\* the tests of getmesh and checkoverlap: nothing within one cell
Outside(mins, maxs, m) ==
  \/ mins[1] - m.dx > maxs[1]
  \/ mins[2] - m.dy > maxs[2]
  \/ mins[3] - m.dz > maxs[3]

\* mesh indices 0..n whose coordinate lies in [lo-d, hi+d], in order
MeshIndices(n, origin, d, lo, hi) ==
  SelectSeq([j \in 1..(n + 1) |-> j - 1],
            LAMBDA j : lo - d <= origin + d * j /\ origin + d * j <= hi + d)

EmptyMesh == [empty |-> TRUE]

getmesh(g, mglevel, extent) ==
  LET m == getmeshsize(g, mglevel)
      zlo == Max2(g.zmin, g.zmmin + m.iz * m.dz)
      zhi == Min2(g.zmax, g.zmmin + (m.iz + m.nzlocal) * m.dz)
      mins == maximum3(extent.mins, <<g.xmin, g.ymin, zlo>>)
      maxs == minimum3(extent.maxs, <<g.xmax, g.ymax, zhi>>)
      zmmin == g.zmmin + m.iz * m.dz
  IN  IF Outside(mins, maxs, m) THEN EmptyMesh
      ELSE [empty |-> FALSE,
            ix |-> MeshIndices(m.nx, g.xmmin, m.dx, mins[1], maxs[1]),
            iy |-> MeshIndices(m.ny, g.ymmin, m.dy, mins[2], maxs[2]),
            iz |-> MeshIndices(m.nzlocal, zmmin, m.dz, mins[3], maxs[3]),
            zmmin |-> zmmin, dx |-> m.dx, dy |-> m.dy, dz |-> m.dz]

\* len(x) of the mesh getmesh returned
MeshLen(mesh) == IF mesh.empty THEN 0 ELSE Len(mesh.ix) * Len(mesh.iy)

checkoverlap(g, mglevel, extent) ==
  LET m == getmeshsize(g, mglevel)
      mins == maximum3(extent.mins, <<g.xmin, g.ymin, g.zmin>>)
      maxs == minimum3(extent.maxs, <<g.xmax, g.ymax, g.zmax>>)
  IN  ~Outside(mins, maxs, m)

\* one z slice of getdata: sample, normalize, setparity, clean, setlevels
Slice(g, a, mglevel, mesh, kz, dfill, fuzzsign) ==
  LET ly == Len(mesh.iy)
      point(n) ==
        LET jx == mesh.ix[((n - 1) \div ly) + 1]
            jy == mesh.iy[((n - 1) % ly) + 1]
            d == griddistance(a, <<g.xmmin + mesh.dx * jx,
                                   g.ymmin + mesh.dy * jy,
                                   mesh.zmmin + mesh.dz * kz>>)
            dels == normalize(d.dels, d.neumann, mesh.dx, mesh.dy, mesh.dz)
        IN  [ix |-> jx, iy |-> jy, iz |-> kz, dels |-> dels,
             vs |-> d.vs, ns |-> d.ns,
             parity |-> setparity(jx, jy, kz, dels, d.neumann, dfill, fuzzsign),
             mglevel |-> mglevel]
  IN  clean([n \in 1..MeshLen(mesh) |-> point(n)])

\* the slices of one level, none when the mesh of the level is empty
SlicesAt(g, a, mglevel, dfill, fuzzsign) ==
  LET mesh == getmesh(g, mglevel, getextent(a))
  IN  IF MeshLen(mesh) = 0 THEN <<>>
      ELSE [s \in 1..Len(mesh.iz) |->
              Slice(g, a, mglevel, mesh, mesh.iz[s], dfill, fuzzsign)]

RECURSIVE SlicesFrom(_, _, _, _, _)
SlicesFrom(g, a, mglevel, dfill, fuzzsign) ==
  IF mglevel >= g.mglevels THEN <<>>
  ELSE SlicesAt(g, a, mglevel, dfill, fuzzsign)
         \o SlicesFrom(g, a, mglevel + 1, dfill, fuzzsign)

\* the accumulator created before the loops instead of on first use
Sampled_eager(g, a, mglevel) == TRUE

\* whether sampling reaches a.griddistance at all
RECURSIVE Sampled(_, _, _)
Sampled(g, a, mglevel) ==
  /\ mglevel < g.mglevels
  /\ \/ LET mesh == getmesh(g, mglevel, getextent(a))
        IN  MeshLen(mesh) # 0 /\ Len(mesh.iz) # 0
     \/ Sampled(g, a, mglevel + 1)

\* the assertion of the Delta operators fails whatever the points are
MixedTree(a) == griddistance(a, <<0, 0, 0>>).err

\* the accumulator of getdata: an empty Delta holding the slices
Accumulator(a, slices) ==
  [neumann |-> a.neumann, fuzzsign |-> -1, datalist |-> slices]

\* Grid.getdata; error is set when the call ends in the assertion failure
RECURSIVE getdata(_, _, _, _)
getdata(g, a, dfill, fuzzsign) ==
  IF ~checkoverlap(g, 0, getextent(a)) THEN g
  ELSE IF a.kind = "Plus"
    THEN LET g1 == getdata(g, a.left, dfill, fuzzsign)
         IN  IF g1.error THEN g1 ELSE getdata(g1, a.right, dfill, fuzzsign)
  ELSE IF ~Sampled(g, a, 0) THEN g
  ELSE IF MixedTree(a) THEN [g EXCEPT !.error = TRUE]
  ELSE [g EXCEPT !.dlist =
          Append(@, Accumulator(a, SlicesFrom(g, a, 0, dfill, fuzzsign)))]

-----------------------------------------------------------------------------
(* The solver's conductor object and Delta.install. *)

EmptyData == [n |-> 0, nmax |-> 0, data |-> <<>>]

ConductorType ==
  [interior |-> EmptyData, evensubgrid |-> EmptyData,
   oddsubgrid |-> EmptyData, fuzzsign |-> -1, levels |-> 0]

\* the conductor data held by the RZ solver's grid
EmptyRZ == [interior |-> <<>>, evensubgrid |-> <<>>, oddsubgrid |-> <<>>]

RZLike == {"RZgeom", "XZgeom", "XYgeom"}

RECURSIVE Flatten(_)
Flatten(slices) ==
  IF slices = <<>> THEN <<>> ELSE Head(slices) \o Flatten(Tail(slices))

WithParity(pts, par) == SelectSeq(pts, LAMBDA q : q.parity = par)

InteriorEntry(q) ==
  [ix |-> q.ix, iy |-> q.iy, iz |-> q.iz,
   volt |-> q.vs[1], numb |-> q.ns[1], ilevel |-> q.mglevel]

SubgridEntry(q, delssign) ==
  [ix |-> q.ix, iy |-> q.iy, iz |-> q.iz,
   dels |-> [k \in Dirs |-> <<q.dels[k][1] * delssign, q.dels[k][2]>>],
   volt |-> q.vs, numb |-> q.ns, ilevel |-> q.mglevel]

InteriorEntries(pts) == [n \in 1..Len(pts) |-> InteriorEntry(pts[n])]
SubgridEntries(pts, delssign) ==
  [n \in 1..Len(pts) |-> SubgridEntry(pts[n], delssign)]

\* entries written at n.., nmax raised when needed, n advanced
Store(dest, entries) ==
  LET k == Len(entries)
  IN  [n |-> dest.n + k,
       nmax |-> Max2(dest.nmax, dest.n + k),
       data |-> SubSeq(dest.data, 1, dest.n) \o entries
                  \o SubSeq(dest.data, dest.n + k + 1, Len(dest.data))]

\* the compiled RZ install: the data of the conductor object goes into the
\* RZ database, and all the accumulated data is copied back
install_conductors_rz(c, rz) ==
  LET add(dest, list) == list \o SubSeq(dest.data, 1, dest.n)
      back(dest, list) ==
        [n |-> Len(list), nmax |-> Max2(dest.nmax, Len(list)), data |-> list]
      rz1 == [interior |-> add(c.interior, rz.interior),
              evensubgrid |-> add(c.evensubgrid, rz.evensubgrid),
              oddsubgrid |-> add(c.oddsubgrid, rz.oddsubgrid)]
  IN  [conductors |->
         [c EXCEPT !.interior = back(@, rz1.interior),
                   !.evensubgrid = back(@, rz1.evensubgrid),
                   !.oddsubgrid = back(@, rz1.oddsubgrid)],
       rzdb |-> rz1]

\* Delta.install of one accumulator
install(d, installrz, solvergeom, cobj, rz) ==
  LET delssign == IF d.neumann THEN -1 ELSE 1
      torz == installrz /\ solvergeom \in RZLike
      reset(dest) == IF torz THEN [dest EXCEPT !.n = 0] ELSE dest
      pts == Flatten(d.datalist)
      inter == InteriorEntries(WithParity(pts, -1))
      even == SubgridEntries(WithParity(pts, 0), delssign)
      odd == SubgridEntries(WithParity(pts, 1), delssign)
      ntot == Len(inter) + Len(even) + Len(odd)
      c1 == [cobj EXCEPT
               !.fuzzsign = d.fuzzsign,
               !.interior = Store(reset(@), inter),
               !.evensubgrid = Store(reset(@), even),
               !.oddsubgrid = Store(reset(@), odd)]
  IN  IF ntot > 0 /\ torz THEN install_conductors_rz(c1, rz)
      ELSE [conductors |-> c1, rzdb |-> rz]

\* the loop of installdata over dlist
RECURSIVE InstallAll(_, _, _, _, _)
InstallAll(dlist, installrz, solvergeom, cobj, rz) ==
  IF dlist = <<>> THEN [conductors |-> cobj, rzdb |-> rz]
  ELSE LET r == install(Head(dlist), installrz, solvergeom, cobj, rz)
       IN  InstallAll(Tail(dlist), installrz, solvergeom, r.conductors, r.rzdb)

\* installdata that leaves the installed accumulators in dlist
installdata_keepdlist(g, installrz, solvergeom, cobj, rz) ==
  LET r == InstallAll(g.dlist, installrz, solvergeom,
                      [cobj EXCEPT !.levels = g.mglevels], rz)
  IN  [grid |-> [g EXCEPT !.dlistinstalled = @ \o g.dlist],
       conductors |-> r.conductors, rzdb |-> r.rzdb]

\* Grid.installdata: the level count is copied, every accumulator of dlist
\* is installed, and dlist moves to dlistinstalled
installdata(g, installrz, solvergeom, cobj, rz) ==
  LET r == InstallAll(g.dlist, installrz, solvergeom,
                      [cobj EXCEPT !.levels = g.mglevels], rz)
  IN  [grid |-> [g EXCEPT !.dlistinstalled = @ \o g.dlist, !.dlist = <<>>],
       conductors |-> r.conductors, rzdb |-> r.rzdb]

-----------------------------------------------------------------------------
(* Sampling and installing through a Grid object: a script builds a Grid,  *)
(* then calls getdata and installdata.  One tick is a quarter of a length  *)
(* unit.                                                                   *)

MaxOps == 2

\* arguments of Grid(): n cells of size d from -n*d/2 in x, y and z, cropped
\* to zmax in z
Mesh3D(n, d, zmax) ==
  [nx |-> n, ny |-> n, nz |-> n,
   xmmin |-> -(n * d) \div 2, xmmax |-> (n * d) \div 2,
   ymmin |-> -(n * d) \div 2, ymmax |-> (n * d) \div 2,
   zmmin |-> -(n * d) \div 2, zmmax |-> (n * d) \div 2,
   xmin |-> -(n * d) \div 2, xmax |-> (n * d) \div 2,
   ymin |-> -(n * d) \div 2, ymax |-> (n * d) \div 2,
   zmin |-> -(n * d) \div 2, zmax |-> zmax,
   l2symtry |-> FALSE, l4symtry |-> FALSE, mgmaxlevels |-> 0]

\* an r-z mesh: no cells in y, x from 0
Mesh2D(nx, dx, nz, dz) ==
  [nx |-> nx, ny |-> 0, nz |-> nz,
   xmmin |-> 0, xmmax |-> nx * dx, ymmin |-> 0, ymmax |-> 0,
   zmmin |-> -(nz * dz) \div 2, zmmax |-> (nz * dz) \div 2,
   xmin |-> 0, xmax |-> nx * dx, ymin |-> 0, ymax |-> 0,
   zmin |-> -(nz * dz) \div 2, zmax |-> (nz * dz) \div 2,
   l2symtry |-> FALSE, l4symtry |-> FALSE, mgmaxlevels |-> 0]

\* the mesh of spacing 0.5 spanning -2..2 in each axis
BoxMesh == Mesh3D(8, 2, 8)
\* Box(2,2,2) centered at the origin, at 1 volt
TheBox == Box(<<8, 8, 8>>, <<0, 0, 0>>, 1, 1, FALSE)
SmallBox == Box(<<4, 4, 4>>, <<0, 0, 0>>, 2, 2, FALSE)
\* boxes away from the mesh, in x and in z
FarBoxX == Box(<<8, 8, 8>>, <<40, 0, 0>>, 3, 3, FALSE)
FarBoxZ == Box(<<8, 8, 8>>, <<0, 0, 40>>, 3, 3, FALSE)
\* a box beyond the mesh in z, within a coarse cell of its end
NearBoxZ == Box(<<8, 8, 8>>, <<0, 0, 18>>, 3, 3, FALSE)
\* a box beyond the mesh in x, within a cell of its edge
EdgeBoxX == Box(<<8, 8, 8>>, <<14, 0, 0>>, 3, 3, FALSE)
NeumannBox == Box(<<8, 8, 8>>, <<0, 0, 0>>, 0, 4, TRUE)

BoxShapes == {TheBox, AssemblyMinus(TheBox, TheBox)}
GridShapes ==
  {TheBox, FarBoxX, FarBoxZ, NearBoxZ, EdgeBoxX, NeumannBox,
   AssemblyMinus(TheBox, TheBox), AssemblyMinus(NeumannBox, NeumannBox),
   AssemblyMinus(TheBox, SmallBox), AssemblyPlus(SmallBox, FarBoxX)}

\* the shapes sampled on the r-z and x-z meshes
SliceShapes ==
  {TheBox, SmallBox, NeumannBox, AssemblyMinus(TheBox, TheBox)}

\* the shapes sampled on the mesh whose z extent is cropped
EndShapes == {TheBox, FarBoxZ, NearBoxZ}

\* a plane through the middle of the mesh, the conductor above it, alone and
\* cutting the box
MidPlane == Plane(0, 1, <<0, 0, 0>>, 5, 5, FALSE)
PlaneShapes == {MidPlane, AssemblyAnd(TheBox, MidPlane), SmallBox}

\* unions: a box inside a box as wide as the mesh, two boxes apart, a union
\* of a union
WideBox == Box(<<16, 16, 16>>, <<0, 0, 0>>, 1, 1, FALSE)
UnionShapes ==
  {AssemblyPlus(WideBox, SmallBox), AssemblyPlus(SmallBox, FarBoxX),
   AssemblyPlus(AssemblyPlus(SmallBox, EdgeBoxX), TheBox),
   AssemblyMinus(TheBox, SmallBox)}

\* Neumann and Dirichlet shapes under one operator: at the root, below the
\* root, beside a shape sampled before, and away from the mesh
MixedShapes ==
  {AssemblyPlus(NeumannBox, SmallBox), AssemblyAnd(NeumannBox, SmallBox),
   AssemblyMinus(TheBox, AssemblyPlus(NeumannBox, SmallBox)),
   AssemblyPlus(SmallBox, AssemblyMinus(NeumannBox, SmallBox)),
   AssemblyAnd(FarBoxX, NeumannBox)}

DFills == 1..3

RunArgs(mesh, shapes, dfill, installrz, solvergeom) ==
  [mesh |-> mesh, shapes |-> shapes, dfill |-> dfill,
   installrz |-> installrz, solvergeom |-> solvergeom]

GridRuns ==
  {RunArgs(BoxMesh, BoxShapes, df, FALSE, "XYZgeom") : df \in DFills}
  \cup {RunArgs(Mesh3D(4, 4, 8), GridShapes, 3, FALSE, "XYZgeom")}
  \cup {RunArgs(Mesh3D(4, 4, 8), SliceShapes, 1, FALSE, "XYZgeom")}
  \cup {RunArgs(Mesh3D(4, 4, 44), EndShapes, 3, TRUE, "XYZgeom")}
  \cup {RunArgs(Mesh3D(4, 4, 8), PlaneShapes, 3, FALSE, "XYZgeom")}
  \cup {RunArgs(Mesh3D(4, 4, 8), UnionShapes, df, FALSE, "XYZgeom") :
          df \in {1, 3}}
  \cup {RunArgs(Mesh3D(4, 4, 8), MixedShapes, 3, FALSE, "XYZgeom")}
  \cup {RunArgs(Mesh2D(4, 2, 4, 4), SliceShapes, 3, rz, "RZgeom") :
          rz \in BOOLEAN}
  \cup {RunArgs(Mesh2D(4, 2, 4, 4), SliceShapes, 3, TRUE, "XZgeom")}

\* runs long enough for a second installdata after a getdata
MaxPendingOps == 3
PendingShapes == {TheBox, SmallBox, AssemblyMinus(TheBox, TheBox)}
PendingRuns ==
  {RunArgs(Mesh3D(4, 4, 8), PendingShapes, 2, FALSE, "XYZgeom")}
  \cup {RunArgs(Mesh2D(4, 2, 4, 4), PendingShapes, 2, rz, "RZgeom") :
          rz \in BOOLEAN}

\* the number of calls a run makes
OpsBound(run) == IF run \in PendingRuns THEN MaxPendingOps ELSE MaxOps

\* the calls a run has made so far, in order
Call(op, a) == [op |-> op, a |-> a]
NoArg == [kind |-> "none"]

InitGrid ==
  /\ \E run \in GridRuns :
       grid = [g |-> Grid(run.mesh), args |-> run, calls |-> <<>>]
  /\ conductors = ConductorType
  /\ rzdb = EmptyRZ
  /\ installedconductors = <<>>
  /\ query = Idle /\ solver = Idle /\ delta = Idle /\ srfrv = Idle
  /\ ShapesIdle

\* g.getdata(a, dfill)
GetData ==
  /\ Len(grid.calls) < OpsBound(grid.args) /\ ~grid.g.error
  /\ \E a \in grid.args.shapes :
       grid' = [grid EXCEPT !.g = getdata(@, a, grid.args.dfill, -1),
                            !.calls = Append(@, Call("getdata", a))]
  /\ UNCHANGED <<query, conductors, rzdb, solver, installedconductors,
                 delta, srfrv, shapevars>>

\* g.installdata(installrz, gridmode, solvergeom, conductors)
InstallData ==
  /\ Len(grid.calls) < OpsBound(grid.args) /\ ~grid.g.error
  /\ LET r == installdata(grid.g, grid.args.installrz, grid.args.solvergeom,
                          conductors, rzdb)
     IN  /\ grid' = [grid EXCEPT
                      !.g = r.grid,
                      !.calls = Append(@, Call("installdata", NoArg))]
         /\ conductors' = r.conductors
         /\ rzdb' = r.rzdb
  /\ UNCHANGED <<query, solver, installedconductors, delta, srfrv, shapevars>>

NextGrid == GetData \/ InstallData

SpecGrid == InitGrid /\ [][NextGrid]_vars

InitPending ==
  /\ \E run \in PendingRuns :
       grid = [g |-> Grid(run.mesh), args |-> run, calls |-> <<>>]
  /\ conductors = ConductorType
  /\ rzdb = EmptyRZ
  /\ installedconductors = <<>>
  /\ query = Idle /\ solver = Idle /\ delta = Idle /\ srfrv = Idle
  /\ ShapesIdle

SpecPending == InitPending /\ [][NextGrid]_vars

\* the call just made was g.getdata(a) as the first call of the run
FirstGetData(a) == grid.calls = <<Call("getdata", a)>>

\* the records of all accumulators of a list, and those of one level
Records(dlist) ==
  UNION {{Flatten(dlist[i].datalist)[n] :
            n \in 1..Len(Flatten(dlist[i].datalist))} : i \in 1..Len(dlist)}
RecordsAt(dlist, mglevel) == {q \in Records(dlist) : q.mglevel = mglevel}

\* the box scenario: level-0 records, and the position of a record in ticks
BoxScenario == grid.args.mesh = BoxMesh /\ FirstGetData(TheBox)
BoxRecords == RecordsAt(grid.g.dlist, 0)
BoxCoord(q) == <<-8 + 2 * q.ix, -8 + 2 * q.iy, -8 + 2 * q.iz>>
MaxAbs(c) == Max2(Abs(c[1]), Max2(Abs(c[2]), Abs(c[3])))
BoxMeshPoints == {<<x, y, z>> : x, y, z \in {-8 + 2 * j : j \in 0..8}}
CoordsOf(par) == {BoxCoord(q) : q \in {r \in BoxRecords : r.parity \in par}}

GetDataStep(a) == grid'.calls = Append(grid.calls, Call("getdata", a))
NewAccumulators ==
  SubSeq(grid'.g.dlist, Len(grid.g.dlist) + 1, Len(grid'.g.dlist))

(* C4: sampling MINUS(a,a) leaves every sampled point far: no interior and *)
(* no cut-cell record survives in what getdata accumulates.                *)
C4_MinusSelfAllFar ==
  [][\A a \in GridShapes :
       (GetDataStep(a) /\ a.kind = "Minus" /\ a.left = a.right) =>
         Records(NewAccumulators) = {}]_vars

C4_Witness ==
  /\ FirstGetData(AssemblyMinus(TheBox, TheBox))
  /\ Len(grid.g.dlist) = 1
  /\ Len(grid.g.dlist[1].datalist) > 0
  /\ Records(grid.g.dlist) = {}

\* the mesh of a level cropped to the grid's extent, and the shape's Extent
\* cropped to it
CroppedMins(g, e) ==
  <<Max2(e.mins[1], g.xmin), Max2(e.mins[2], g.ymin),
    Max2(e.mins[3], Max2(g.zmin, g.zmmin))>>
CroppedMaxs(g, e) ==
  <<Min2(e.maxs[1], g.xmax), Min2(e.maxs[2], g.ymax),
    Min2(e.maxs[3], Min2(g.zmax, g.zmmax))>>
CellOf(g, mglevel) ==
  <<g.dx * g.mglevellx[mglevel], g.dy * g.mglevellx[mglevel],
    g.dz * g.mglevellx[mglevel]>>

\* the Extent and the cropped mesh have a point in common
Overlaps(g, e) ==
  \A i \in 1..3 : CroppedMins(g, e)[i] <= CroppedMaxs(g, e)[i]
\* the Extent reaches within one cell of the cropped mesh of the level
OverlapsAt(g, mglevel, e) ==
  \A i \in 1..3 :
    CroppedMins(g, e)[i] - CellOf(g, mglevel)[i] <= CroppedMaxs(g, e)[i]

Levels(g) == 0..(g.mglevels - 1)

(* C8 as stated: a level whose cropped mesh the shape's Extent does not    *)
(* overlap gets no record from getdata and no error is raised; when the    *)
(* Extent overlaps at no level, getdata returns normally and dlist is      *)
(* unchanged.                                                              *)
C8_AsStated ==
  [][\A a \in GridShapes :
       (GetDataStep(a) /\ ~Overlaps(grid.g, getextent(a))) =>
         /\ ~grid'.g.error
         /\ Records(NewAccumulators) = {}
         /\ grid'.g.dlist = grid.g.dlist]_vars

(* C8: a level from whose cropped mesh the shape's Extent is more than one *)
(* cell of that level away gets no record from getdata; when that is so at *)
(* every level, getdata returns normally and dlist is unchanged.           *)
C8_NoOverlapSkipped ==
  [][\A a \in GridShapes :
       GetDataStep(a) =>
         LET e == getextent(a)
         IN  /\ \A i \in Levels(grid.g) :
                  ~OverlapsAt(grid.g, i, e) => RecordsAt(NewAccumulators, i) = {}
             /\ (\A i \in Levels(grid.g) : ~OverlapsAt(grid.g, i, e)) =>
                  (~grid'.g.error /\ grid'.g.dlist = grid.g.dlist)]_vars

C8_Witness ==
  /\ FirstGetData(FarBoxZ)
  /\ grid.args.mesh.zmax = 44
  /\ checkoverlap(grid.g, 0, getextent(FarBoxZ))
  /\ grid.g.dlist = <<>> /\ ~grid.g.error

\* the records of the slices of a sequence
SliceRecords(slices) ==
  {Flatten(slices)[n] : n \in 1..Len(Flatten(slices))}

\* the slices of one level on getmesh(mglevel) without an extent: every mesh
\* point of the level inside the domain and the crop
UnprunedSlicesAt(g, a, mglevel, dfill, fuzzsign) ==
  [s \in 1..Len(getmesh(g, mglevel, FullDomain).iz) |->
     Slice(g, a, mglevel, getmesh(g, mglevel, FullDomain),
           getmesh(g, mglevel, FullDomain).iz[s], dfill, fuzzsign)]

\* what getdata would record for a without an extent, part by part for an
\* AssemblyPlus as getdata does
RECURSIVE UnprunedRecords(_, _, _)
UnprunedRecords(g, a, dfill) ==
  IF a.kind = "Plus"
    THEN UnprunedRecords(g, a.left, dfill)
           \cup UnprunedRecords(g, a.right, dfill)
  ELSE UNION {SliceRecords(UnprunedSlicesAt(g, a, i, dfill, -1)) :
                i \in Levels(g)}

\* the grid points, level by level, that hold a record
PointsOf(recs) == {<<q.mglevel, q.ix, q.iy, q.iz>> : q \in recs}

\* what getdata would record for a sampled as one shape against its own
\* extent, whatever its class
OneShapeRecords(g, a, dfill) ==
  IF checkoverlap(g, 0, getextent(a)) /\ Sampled(g, a, 0)
    THEN SliceRecords(SlicesFrom(g, a, 0, dfill, -1))
  ELSE {}

\* the roots getdata samples: the parts of nested unions, left to right
RECURSIVE Parts(_)
Parts(a) ==
  IF a.kind = "Plus" THEN Parts(a.left) \o Parts(a.right) ELSE <<a>>

(* C21: getdata on a union samples the parts of the union separately and   *)
(* never the union itself, roots of the other classes are sampled as one   *)
(* shape, and the grid points that get an interior or cut-cell record from *)
(* the parts are those that get one when the union is sampled as one shape *)
(* against the union of the extents.                                       *)
C21_SplitUnion ==
  [][\A a \in grid.args.shapes :
       (GetDataStep(a) /\ ~grid'.g.error) =>
         /\ \A i \in 1..Len(NewAccumulators) :
              \E j \in 1..Len(Parts(a)) :
                NewAccumulators[i].datalist =
                  SlicesFrom(grid.g, Parts(a)[j], 0, grid.args.dfill, -1)
         /\ PointsOf(Records(NewAccumulators)) =
              PointsOf(OneShapeRecords(grid.g, a, grid.args.dfill))]_vars

\* somewhere in the tree a binary operator has a Neumann operand and a
\* Dirichlet operand
RECURSIVE MixesNeumann(_)
MixesNeumann(a) ==
  /\ ~IsPrimitive(a)
  /\ \/ MixesNeumann(a.left)
     \/ IsBinary(a) /\ (MixesNeumann(a.right)
                          \/ a.left.neumann # a.right.neumann)

(* C29: getdata of a tree in which a binary operator (AND, OR or MINUS),   *)
(* at the root or below, combines a Neumann operand with a Dirichlet       *)
(* operand fails with the 'cannot be mixed' assertion, and no record of    *)
(* the tree is accumulated.                                                *)
C29_MixingFails ==
  [][\A a \in grid.args.shapes :
       (GetDataStep(a) /\ MixesNeumann(a)) =>
         /\ grid'.g.error
         /\ grid'.g.dlist = grid.g.dlist]_vars

(* C20: pruning with the Extent drops only far points: the interior and    *)
(* cut-cell records getdata accumulates for a shape from the meshes        *)
(* restricted to domain, crop and Extent plus one cell are those it would  *)
(* accumulate from every mesh point of each level inside domain and crop.  *)
C20_PruningDropsOnlyFar ==
  [][\A a \in grid.args.shapes :
       (GetDataStep(a) /\ ~grid'.g.error) =>
         Records(NewAccumulators) =
           UnprunedRecords(grid.g, a, grid.args.dfill)]_vars

-----------------------------------------------------------------------------
(* installconductors and the MultiGrid solver (scripts/multigrid.py).      *)
(* Python objects shared by reference (conductor objects, installed lists) *)
(* live in the heaps objs and lists and are named by their index.          *)

MaxCalls == 3
\* calls in the run that registers a single shape with the solver
MaxSolverCalls == 5

\* top.fselfb = [0.]: the one field group, and the particle-domain key
FselfbKeys == {"0"}
SolverKeys == FselfbKeys \cup {"p"}

MultiGrid ==
  [conductorobjects |-> <<>>, installedconductorlists |-> <<>>,
   conductordatalist |-> <<>>, objs |-> <<>>, lists |-> <<>>,
   registered |-> FALSE, error |-> FALSE]

\* the outcome of a direct install once the data is installed
Installed(r) == [ok |-> TRUE, conductors |-> r.conductors, rzdb |-> r.rzdb]

\* g.installdata on the sampled grid g; nothing is installed when getdata
\* failed
InstallSampled(g, installrz, solvergeom, cobj, rz) ==
  IF g.error THEN [ok |-> FALSE, conductors |-> cobj, rzdb |-> rz]
  ELSE Installed(installdata(g, installrz, solvergeom, cobj, rz))

\* the body of installconductors past the solver check: a Grid is built,
\* the data generated and installed; ok is false when getdata failed
DirectInstall(a, run, mgmaxlevels, installrz, cobj, rz) ==
  InstallSampled(
    getdata(Grid([run.mesh EXCEPT !.mgmaxlevels = mgmaxlevels]),
            a, run.dfill, -1),
    installrz, run.solvergeom, cobj, rz)

\* MultiGrid.installconductor: the conductor is only added to the list
installconductor(sv, a, dfill) ==
  [sv EXCEPT !.conductordatalist =
     Append(@, [conductor |-> a, dfill |-> dfill])]

\* a membership test that never finds the conductor
InList_never(list, a) == FALSE

InList(list, a) == \E j \in 1..Len(list) : list[j] = a

\* the end of MultiGrid.__installconductor: the conductor joins the lists
\* and the object holds the installed data r
Record(st, sv1, oid, a, r) ==
  IF r.ok
    THEN [solver |-> [sv1 EXCEPT !.objs[oid] = r.conductors],
          installedconductors |-> Append(st.installedconductors, a)]
    ELSE [st EXCEPT !.solver = [sv1 EXCEPT !.error = TRUE]]

\* MultiGrid.__installconductor, on the state st = [solver,
\* installedconductors]
InstallOne(st, oid, lid, cd, fselfb, run) ==
  IF InList(st.solver.lists[lid], cd.conductor) THEN st
  ELSE Record(st,
              [st.solver EXCEPT !.lists[lid] = Append(@, cd.conductor)],
              oid, cd.conductor,
              DirectInstall(cd.conductor, [run EXCEPT !.dfill = cd.dfill],
                            IF fselfb = "p" THEN 1 ELSE 0, FALSE,
                            st.solver.objs[oid], EmptyRZ))

RECURSIVE InstallFrom(_, _, _, _, _, _)
InstallFrom(st, oid, lid, i, fselfb, run) ==
  IF i > Len(st.solver.conductordatalist) \/ st.solver.error THEN st
  ELSE InstallFrom(
         InstallOne(st, oid, lid, st.solver.conductordatalist[i], fselfb, run),
         oid, lid, i + 1, fselfb, run)

\* 'p' first refers to the objects of the first field group (serial)
AliasP(sv, fselfb) ==
  IF fselfb = "p" /\ "p" \notin DOMAIN sv.conductorobjects
    THEN IF "0" \in DOMAIN sv.conductorobjects
              /\ "0" \in DOMAIN sv.installedconductorlists
           THEN [sv EXCEPT
                   !.conductorobjects = @ @@ ("p" :> sv.conductorobjects["0"]),
                   !.installedconductorlists =
                      @ @@ ("p" :> sv.installedconductorlists["0"])]
           ELSE [sv EXCEPT !.error = TRUE]
    ELSE sv

\* dict.setdefault on the two dictionaries
SetDefaults(sv, fselfb) ==
  LET sv1 == IF fselfb \in DOMAIN sv.conductorobjects THEN sv
             ELSE [sv EXCEPT
                     !.objs = Append(@, ConductorType),
                     !.conductorobjects = @ @@ (fselfb :> Len(sv.objs) + 1)]
  IN  IF fselfb \in DOMAIN sv1.installedconductorlists THEN sv1
      ELSE [sv1 EXCEPT
              !.lists = Append(@, <<>>),
              !.installedconductorlists = @ @@ (fselfb :> Len(sv1.lists) + 1)]

\* MultiGrid.getconductorobject
getconductorobject(st, fselfb, run) ==
  LET sv1 == AliasP(st.solver, fselfb)
      sv2 == SetDefaults(sv1, fselfb)
  IN  IF sv1.error THEN [st EXCEPT !.solver = sv1]
      ELSE InstallFrom([st EXCEPT !.solver = sv2],
                       sv2.conductorobjects[fselfb],
                       sv2.installedconductorlists[fselfb], 1, fselfb, run)

\* MultiGrid.clearconductors
clearconductors(sv) ==
  IF "0" \in DOMAIN sv.conductorobjects
    THEN [sv EXCEPT
            !.objs[sv.conductorobjects["0"]] =
               [@ EXCEPT !.interior.n = 0, !.evensubgrid.n = 0,
                         !.oddsubgrid.n = 0],
            !.lists = Append(@, <<>>),
            !.installedconductorlists =
               [@ EXCEPT !["0"] = Len(sv.lists) + 1]]
    ELSE sv

InstallShapes ==
  {TheBox, SmallBox, FarBoxX, AssemblyMinus(TheBox, TheBox)}

\* installrz defaults to whether the RZ solver's base grid exists
InstallRuns ==
  {RunArgs(Mesh3D(4, 4, 8), InstallShapes, 3, FALSE, "XYZgeom")}
  \cup {RunArgs(Mesh3D(4, 4, 8), {TheBox}, 3, FALSE, "XYZgeom")}
  \cup {RunArgs(Mesh2D(4, 2, 4, 4), InstallShapes, 3, rz, "RZgeom") :
          rz \in BOOLEAN}

\* the solver is registered (registersolver) or not
InitInstall ==
  /\ \E run \in InstallRuns :
       grid = [g |-> Grid(run.mesh), args |-> run, calls |-> <<>>]
  /\ \E registered \in BOOLEAN :
       solver = [MultiGrid EXCEPT !.registered = registered]
  /\ conductors = ConductorType
  /\ rzdb = EmptyRZ
  /\ installedconductors = <<>>
  /\ query = Idle /\ delta = Idle /\ srfrv = Idle
  /\ ShapesIdle

CallBound ==
  IF Cardinality(grid.args.shapes) = 1 THEN MaxSolverCalls ELSE MaxCalls

Calling(op, a) ==
  /\ Len(grid.calls) < CallBound /\ ~solver.error
  /\ grid' = [grid EXCEPT !.calls = Append(@, Call(op, a))]

\* installconductors(a, dfill=dfill) with the mesh of the run
InstallConductors ==
  \E a \in grid.args.shapes :
    /\ Calling("installconductors", a)
    /\ IF solver.registered
         THEN /\ solver' = installconductor(solver, a, grid.args.dfill)
              /\ UNCHANGED <<conductors, rzdb, installedconductors>>
         ELSE \E r \in {DirectInstall(a, grid.args, 0, grid.args.installrz,
                                      conductors, rzdb)} :
                  /\ conductors' = r.conductors
                  /\ rzdb' = r.rzdb
                  /\ installedconductors' =
                       IF r.ok THEN Append(installedconductors, a)
                               ELSE installedconductors
                  /\ solver' = [solver EXCEPT !.error = ~r.ok]
    /\ UNCHANGED <<query, delta, srfrv, shapevars>>

GetConductorObject ==
  \E k \in SolverKeys :
    /\ solver.registered
    /\ Calling("getconductorobject", [kind |-> k])
    /\ \E st \in {getconductorobject(
                      [solver |-> solver,
                       installedconductors |-> installedconductors],
                      k, grid.args)} :
         /\ solver' = st.solver
         /\ installedconductors' = st.installedconductors
    /\ UNCHANGED <<query, conductors, rzdb, delta, srfrv, shapevars>>

ClearConductors ==
  /\ solver.registered
  /\ Calling("clearconductors", NoArg)
  /\ solver' = clearconductors(solver)
  /\ UNCHANGED <<query, conductors, rzdb, installedconductors, delta, srfrv,
                 shapevars>>

NextInstall == InstallConductors \/ GetConductorObject \/ ClearConductors

SpecInstall == InitInstall /\ [][NextInstall]_vars

Dests == {"interior", "evensubgrid", "oddsubgrid"}

\* the entries present in a destination array
Present(dest) == SubSeq(dest.data, 1, dest.n)

\* going from conductor object c to d, nothing present was lost
OnlyAppended(c, d) ==
  \A k \in Dests :
    /\ d[k].n >= c[k].n
    /\ SubSeq(d[k].data, 1, c[k].n) = Present(c[k])

\* a direct installconductors(a) step: Grid, getdata, then Delta.install
DirectStep(a) ==
  /\ ~solver.registered
  /\ grid'.calls = Append(grid.calls, Call("installconductors", a))

(* C5: over any sequence of installs into the same conductor object, in    *)
(* every geometry and for every installrz setting, the entries present in  *)
(* the interior, even and odd arrays are never removed or overwritten and  *)
(* no count n decreases.                                                   *)
C5_OnlyAppends ==
  [][\A a \in InstallShapes :
       DirectStep(a) => OnlyAppended(conductors, conductors')]_vars

\* what one installconductors(a) of the run puts into an empty object
Contribution(a) ==
  LET r == DirectInstall(a, grid.args, 0, FALSE, ConductorType, EmptyRZ)
  IN  [k \in Dests |-> r.conductors[k].n]

Twice(a) == <<Call("installconductors", a), Call("installconductors", a)>>
Fetched == Call("getconductorobject", [kind |-> "0"])
FetchedObject == solver.objs[solver.conductorobjects["0"]]

(* C6 as stated: after two installconductors calls with the same shape and *)
(* mesh every count has grown by twice the shape's contribution, on the    *)
(* direct path and, once the conductor object is fetched, on the path      *)
(* through the registered solver.                                          *)
C6_AsStated ==
  \A a \in InstallShapes :
    /\ (~solver.registered /\ grid.calls = Twice(a)) =>
         \A k \in Dests : conductors[k].n = 2 * Contribution(a)[k]
    /\ (solver.registered /\ grid.calls = Twice(a) \o <<Fetched>>) =>
         \A k \in Dests : FetchedObject[k].n = 2 * Contribution(a)[k]

(* C6: on the direct path two installconductors calls with the same shape  *)
(* and mesh leave every count at twice the shape's contribution; through   *)
(* a registered solver the two calls only queue the shape, nothing is      *)
(* installed before getconductorobject, which installs it exactly once.    *)
C6_DuplicatesOnDirectPath ==
  \A a \in InstallShapes :
    /\ (~solver.registered /\ grid.calls = Twice(a)) =>
         /\ \A k \in Dests : conductors[k].n = 2 * Contribution(a)[k]
         /\ installedconductors = <<a, a>>
    /\ (solver.registered /\ grid.calls = Twice(a)) =>
         /\ solver.objs = <<>>
         /\ Len(solver.conductordatalist) = 2
         /\ \A k \in Dests : conductors[k].n = 0
    /\ (solver.registered /\ grid.calls = Twice(a) \o <<Fetched>>) =>
         /\ \A k \in Dests : FetchedObject[k].n = Contribution(a)[k]
         /\ installedconductors = <<a>>

C6_Witness ==
  /\ solver.registered
  /\ grid.calls = Twice(TheBox) \o <<Fetched>>
  /\ FetchedObject.interior.n > 0
  /\ FetchedObject.interior.n = Contribution(TheBox).interior

\* the records getdata accumulates for a on the mesh of the run, in order
SampledPoints(a, run) ==
  LET dlist == getdata(Grid(run.mesh), a, run.dfill, -1).dlist
  IN  Flatten([i \in 1..Len(dlist) |-> Flatten(dlist[i].datalist)])

ParityOf(k) ==
  CASE k = "interior" -> -1 [] k = "evensubgrid" -> 0 [] k = "oddsubgrid" -> 1

\* entry e of destination k came from record q
EntryOf(k, e, q) ==
  /\ e.ix = q.ix /\ e.iy = q.iy /\ e.iz = q.iz /\ e.ilevel = q.mglevel
  /\ k = "interior" => (e.volt = q.vs[1] /\ e.numb = q.ns[1])

\* going from old to new, destination k received the records sel after the
\* entries it had
Received(k, old, new, sel) ==
  /\ new.n = old.n + Len(sel)
  /\ new.n <= new.nmax
  /\ SubSeq(new.data, 1, old.n) = Present(old)
  /\ \A j \in 1..Len(sel) : EntryOf(k, new.data[old.n + j], sel[j])

(* C23: Delta.install puts every accumulated record into the one           *)
(* destination of its parity (-1 interior, 0 even, 1 odd), after the       *)
(* entries already there and with its level tag; each count n grows by the *)
(* number of records of that parity and n <= nmax afterwards; an interior  *)
(* entry holds the voltage and the id stored for the -x direction.         *)
C23_RoutedByParity ==
  [][\A a \in InstallShapes :
       (DirectStep(a) /\ ~solver'.error) =>
         \A k \in Dests :
           Received(k, conductors[k], conductors'[k],
                    WithParity(SampledPoints(a, grid.args), ParityOf(k)))]_vars

\* the records of the accumulators of a list, in order
PointsIn(dlist) ==
  Flatten([i \in 1..Len(dlist) |-> Flatten(dlist[i].datalist)])

\* the number of entries of destination k in the arrays a run installs
\* into: the RZ solver's database, or the conductor object
InstalledCount(run, c, rz, k) ==
  IF run.installrz /\ run.solvergeom \in RZLike THEN Len(rz[k]) ELSE c[k].n

InstallDataStep ==
  grid'.calls = Append(grid.calls, Call("installdata", NoArg))

(* C28: an installdata call installs every accumulator of dlist, appends   *)
(* them to dlistinstalled and empties dlist, so the installed entries grow *)
(* by the records of the pending accumulators and by nothing when none is  *)
(* pending; getdata only appends to dlist and installs nothing.  Hence     *)
(* every accumulator is installed by exactly one installdata call and is   *)
(* never both pending and installed.                                       *)
C28_InstalledOnce ==
  [][/\ InstallDataStep =>
          /\ grid'.g.dlist = <<>>
          /\ grid'.g.dlistinstalled = grid.g.dlistinstalled \o grid.g.dlist
          /\ \A k \in Dests :
               InstalledCount(grid.args, conductors', rzdb', k) =
                 InstalledCount(grid.args, conductors, rzdb, k)
                   + Len(WithParity(PointsIn(grid.g.dlist), ParityOf(k)))
          /\ grid.g.dlist = <<>> =>
               /\ rzdb' = rzdb
               /\ \A k \in Dests : conductors'[k] = conductors[k]
     /\ \A a \in grid.args.shapes :
          GetDataStep(a) =>
            /\ grid'.g.dlistinstalled = grid.g.dlistinstalled
            /\ SubSeq(grid'.g.dlist, 1, Len(grid.g.dlist)) = grid.g.dlist
            /\ rzdb' = rzdb /\ conductors' = conductors]_vars

C28_Witness ==
  /\ grid.calls = <<Call("getdata", TheBox), Call("installdata", NoArg),
                    Call("installdata", NoArg)>>
  /\ grid.g.dlist = <<>> /\ Len(grid.g.dlistinstalled) = 1
  /\ conductors.interior.n > 0
  /\ conductors.interior.n =
       Len(WithParity(PointsIn(grid.g.dlistinstalled), -1))

\* what installing a into an empty object for the key k puts there
ContributionAt(a, k) ==
  LET r == DirectInstall(a, grid.args, IF k = "p" THEN 1 ELSE 0, FALSE,
                         ConductorType, EmptyRZ)
  IN  [d \in Dests |-> r.conductors[d].n]

\* the conductors registered with the solver so far
Registered(sv) ==
  {sv.conductordatalist[i].conductor : i \in 1..Len(sv.conductordatalist)}

RECURSIVE SumOver(_, _, _, _)
SumOver(S, tab, f, d) ==
  IF S = {} THEN 0
  ELSE LET c == CHOOSE x \in S : TRUE
       IN  tab[c][f[c]][d] + SumOver(S \ {c}, tab, f, d)

\* the counts of obj are those of every conductor of S installed once, each
\* with the levels of one of the keys
HoldsOnce(obj, S) ==
  LET tab == [c \in S |-> [k \in SolverKeys |-> ContributionAt(c, k)]]
  IN  \E f \in [S -> SolverKeys] :
        \A d \in Dests : obj[d].n = SumOver(S, tab, f, d)

FetchStep(k) ==
  grid'.calls = Append(grid.calls, Call("getconductorobject", [kind |-> k]))

(* C16: after any sequence of installconductor, getconductorobject and     *)
(* clearconductors calls, getconductorobject(k) returns, for every key k   *)
(* including 'p', an object that holds the data of every conductor         *)
(* registered so far, each installed exactly once.                         *)
C16_AllInstalledOnce ==
  [][\A k \in SolverKeys :
       FetchStep(k) =>
         /\ ~solver'.error
         /\ HoldsOnce(solver'.objs[solver'.conductorobjects[k]],
                      Registered(solver'))]_vars

-----------------------------------------------------------------------------
(* Point queries: one shape, one point, one operation.                     *)

QMaxZ == 3
QMaxAura == 1

QBoxA == Box(<<2, 2, 2>>, <<0, 0, 0>>, 0, 1, FALSE)
QBoxZ == Box(<<2, 2, 4>>, <<0, 0, 1>>, 0, 0, FALSE)
QPlaneP == Plane(0, 1, <<0, 0, 0>>, 0, 2, FALSE)
QPlaneQ == Plane(-2, -1, <<0, 0, 0>>, 0, 3, FALSE)

QPrims == {QBoxA, QBoxZ, QPlaneP, QPlaneQ}
QLeaves == QPrims \cup {AssemblyNot(a) : a \in QPrims}
Binaries(L, R) ==
  {AssemblyAnd(l, r) : l \in L, r \in R}
    \cup {AssemblyPlus(l, r) : l \in L, r \in R}
    \cup {AssemblyMinus(l, r) : l \in L, r \in R}
QLevel1 == Binaries(QLeaves, QLeaves)
QLevel2 == {AssemblyNot(a) : a \in QLevel1}
             \cup Binaries(Binaries(QPrims, QPrims), QPrims)
QShapes == QLeaves \cup QLevel1 \cup QLevel2


QPoints == {<<x, 0, z>> : x \in {0, 2}, z \in (-QMaxZ)..QMaxZ}
QAuras == 0..QMaxAura
QVels == {<<0, 0, 1>>, <<0, 0, -1>>}

\* Sphere(1), one tick being half a length unit, and the points it is
\* queried at: on the axes at radius 0.5, 1 and 2, and the points above
QSphere == Sphere(2, <<0, 0, 0>>, 0, 1, FALSE)
QSpheres == {QSphere, AssemblyNot(QSphere)}
QAxisPoints ==
  {<<r, 0, 0>> : r \in {1, 2, 4}} \cup {<<0, 0, -r>> : r \in {1, 2, 4}}
QSpherePoints == QPoints \cup QAxisPoints

NewQuery(o, a, p, u, v) ==
  [op |-> o, shape |-> a, pt |-> p, aura |-> u, vel |-> v,
   done |-> FALSE, res |-> 0]

InitQuery ==
  /\ \/ \E a \in QShapes, p \in QPoints :
          \/ \E u \in QAuras :
               query = NewQuery("isinside", a, p, u, <<0, 0, 0>>)
          \/ query = NewQuery("distance", a, p, 0, <<0, 0, 0>>)
          \/ query = NewQuery("getextent", a, p, 0, <<0, 0, 0>>)
          \/ \E v \in QVels : query = NewQuery("intercept", a, p, 0, v)
     \/ \E a \in QSpheres, p \in QSpherePoints :
          \/ \E u \in QAuras :
               query = NewQuery("isinside", a, p, u, <<0, 0, 0>>)
          \/ query = NewQuery("distance", a, p, 0, <<0, 0, 0>>)
          \/ query = NewQuery("getextent", a, p, 0, <<0, 0, 0>>)
  /\ grid = Idle /\ conductors = Idle /\ rzdb = Idle /\ solver = Idle
  /\ installedconductors = Idle /\ delta = Idle /\ srfrv = Idle
  /\ ShapesIdle

QueryFrame ==
  UNCHANGED <<grid, conductors, rzdb, solver, installedconductors,
              delta, srfrv, shapevars>>

CallIsInside ==
  /\ query.op = "isinside" /\ ~query.done
  /\ query' = [query EXCEPT !.done = TRUE,
                 !.res = isinside(query.shape, query.pt, query.aura)]
  /\ QueryFrame

CallDistance ==
  /\ query.op = "distance" /\ ~query.done
  /\ query' = [query EXCEPT !.done = TRUE,
                 !.res = distance(query.shape, query.pt)]
  /\ QueryFrame

CallGetExtent ==
  /\ query.op = "getextent" /\ ~query.done
  /\ query' = [query EXCEPT !.done = TRUE, !.res = getextent(query.shape)]
  /\ QueryFrame

CallIntercept ==
  /\ query.op = "intercept" /\ ~query.done
  /\ query' = [query EXCEPT !.done = TRUE,
                 !.res = intercept(query.shape, query.pt, query.vel)]
  /\ QueryFrame

NextQuery == CallIsInside \/ CallDistance \/ CallGetExtent \/ CallIntercept

SpecQuery == InitQuery /\ [][NextQuery]_vars

\* truth value of an isinside result
Truth(r) == r.isinside # 0

DoneOp(o) == query.op = o /\ query.done

(* C1: the truth value of isinside on a composite equals the boolean       *)
(* combination of the children's truth values, whatever the conductor ids: *)
(* AND iff both, OR iff either, NOT iff not, MINUS iff left and not right. *)
C1_BooleanAlgebra ==
  (DoneOp("isinside") /\ ~IsPrimitive(query.shape)) =>
    LET a == query.shape
        l == Truth(isinside(a.left, query.pt, query.aura))
        r == Truth(isinside(a.right, query.pt, query.aura))
    IN  Truth(query.res) =
          CASE a.kind = "Not"   -> ~l
            [] a.kind = "And"   -> l /\ r
            [] a.kind = "Plus"  -> l \/ r
            [] a.kind = "Minus" -> l /\ ~r

(* C2: every point for which isinside (aura = 0) is true lies inside the   *)
(* box returned by the shape's getextent().                                *)
C2_InsideWithinExtent ==
  (DoneOp("isinside") /\ query.aura = 0 /\ Truth(query.res)) =>
    InExtent(getextent(query.shape), query.pt)

\* the two children's candidate intercepts of a binary composite
LeftCandidate == intercept(query.shape.left, query.pt, query.vel)
RightCandidate == intercept(query.shape.right, query.pt, query.vel)
Position(s) == <<s.xi, s.yi, s.zi>>
OnSurface(a, s) == Abs(distance(a, Position(s))) < surffuzz
IsSentinel(s) ==
  /\ Position(s) = <<largepos, largepos, largepos>>
  /\ s.itheta = 0 /\ s.iphi = 0

(* C9: for a binary composite, where neither child's candidate intercept   *)
(* lies within surffuzz of the composite's surface the result is the       *)
(* sentinel (largepos position, zero angles); everywhere else the returned *)
(* position is one of the two children's candidate positions.              *)
C9_SentinelOrCandidate ==
  (DoneOp("intercept") /\ IsBinary(query.shape)) =>
    IF ~OnSurface(query.shape, LeftCandidate)
       /\ ~OnSurface(query.shape, RightCandidate)
      THEN IsSentinel(query.res)
      ELSE Position(query.res) \in
             {Position(LeftCandidate), Position(RightCandidate)}

\* distance from the composite's surface to a candidate intercept
SurfaceDist(s) == Abs(distance(query.shape, Position(s)))

\* the result carries the position and angles of candidate c, theta offset
\* by addpi
Returned(c, addpi) ==
  /\ Position(query.res) = Position(c)
  /\ query.res.itheta = c.itheta + addpi
  /\ query.res.iphi = c.iphi

ReturnedLeft == Returned(LeftCandidate, 0)
ReturnedRight ==
  Returned(RightCandidate, IF query.shape.kind = "Minus" THEN pi ELSE 0)

\* the left candidate is preferred to the right one, or the reverse
Prefer(l, r) ==
  IF SurfaceDist(l) < surffuzz /\ SurfaceDist(r) < surffuzz
    THEN magsq(l, query.pt) < magsq(r, query.pt)
    ELSE SurfaceDist(l) < SurfaceDist(r)

(* C25: for a binary composite with a candidate within surffuzz of the     *)
(* composite's surface, the intercept returned is the child candidate      *)
(* nearer to that surface, or, with both within surffuzz of it, the one    *)
(* nearer to the original point; it has that candidate's angles, theta     *)
(* increased by pi for the right candidate of a MINUS and never for the    *)
(* left candidate.                                                         *)
C25_NearerCandidate ==
  (/\ DoneOp("intercept") /\ IsBinary(query.shape)
   /\ \/ OnSurface(query.shape, LeftCandidate)
      \/ OnSurface(query.shape, RightCandidate)) =>
    /\ Prefer(LeftCandidate, RightCandidate) => ReturnedLeft
    /\ Prefer(RightCandidate, LeftCandidate) => ReturnedRight
    /\ ReturnedLeft \/ ReturnedRight

\* the two children's distances of a binary composite
LeftDistance == distance(query.shape.left, query.pt)
RightDistance == distance(query.shape.right, query.pt)

(* C26: for MINUS(a,b) and child distances da, db that are both nonzero,   *)
(* the combined distance is <= 0 exactly when da < 0 and db > 0 (inside a  *)
(* and outside b), and > 0 otherwise.                                      *)
C26_MinusSign ==
  (/\ DoneOp("distance") /\ query.shape.kind = "Minus"
   /\ LeftDistance # 0 /\ RightDistance # 0) =>
    (query.res <= 0 <=> (LeftDistance < 0 /\ RightDistance > 0))

C26_Witness ==
  /\ DoneOp("distance") /\ query.shape = AssemblyMinus(QBoxZ, QBoxA)
  /\ LeftDistance < 0 /\ RightDistance > 0
  /\ query.res < 0

\* distance from the origin of a point on one of the axes
AxisRadius(p) == Abs(p[1]) + Abs(p[2]) + Abs(p[3])

\* the sphere of radius 1: +1 at radius 2, -0.5 at radius 0.5
SphereDistances ==
  (DoneOp("distance") /\ query.shape = QSphere
     /\ query.pt \in QAxisPoints) =>
    /\ AxisRadius(query.pt) = 4 => query.res = 2
    /\ AxisRadius(query.pt) = 1 => query.res = -1

C11_AuraConservative ==
  (DoneOp("isinside") /\ Truth(query.res)) =>
    \A u \in QAuras :
      u >= query.aura => Truth(isinside(query.shape, query.pt, u))

-----------------------------------------------------------------------------
(* Delta.normalize called repeatedly on the data of one point.  The Delta  *)
(* is constructed from a generator at the point (Delta.__init__) and then  *)
(* normalize(dx,dy,dz) is called with the same cell sizes each time.       *)

MaxNormalize == 2
MaxSpacing == 2
NMaxCoord == 2

NBox == Box(<<2, 2, 2>>, <<0, 0, 0>>, 0, 1, FALSE)
NBoxNeumann == Box(<<2, 2, 2>>, <<0, 0, 0>>, 0, 1, TRUE)
NPlane == Plane(1, 1, <<0, 0, 0>>, 0, 2, FALSE)
NShapes == {NBox, NBoxNeumann, NPlane}
NCoords == (-NMaxCoord)..NMaxCoord
NSpacings == 1..MaxSpacing

InitNormalize ==
  /\ \E a \in NShapes, x \in NCoords, y \in NCoords, z \in NCoords,
        dx \in NSpacings, dy \in NSpacings, dz \in NSpacings :
       delta = [d |-> DeltaGen(a, <<x, y, z>>),
                dx |-> dx, dy |-> dy, dz |-> dz, calls |-> 0]
  /\ grid = Idle /\ conductors = Idle /\ rzdb = Idle /\ solver = Idle
  /\ installedconductors = Idle /\ query = Idle /\ srfrv = Idle
  /\ ShapesIdle

Normalize ==
  /\ delta.calls < MaxNormalize
  /\ delta' = [delta EXCEPT
                 !.d.dels = normalize(delta.d.dels, delta.d.neumann,
                                      delta.dx, delta.dy, delta.dz),
                 !.calls = @ + 1]
  /\ UNCHANGED <<query, grid, conductors, rzdb, solver,
                 installedconductors, srfrv, shapevars>>

NextNormalize == Normalize

SpecNormalize == InitNormalize /\ [][NextNormalize]_vars

\* a call of normalize on data that was normalized before
RepeatedCall == delta.calls >= 1 /\ delta'.calls = delta.calls + 1
\* the cell size along direction k (-x,+x,-y,+y,-z,+z)
CellSize(k) == <<delta.dx, delta.dx, delta.dy, delta.dy, delta.dz, delta.dz>>[k]

(* C7 as stated: a second call of normalize with the same spacings leaves  *)
(* each of the six distances equal to its value after the first call.      *)
C7_Idempotent ==
  [][RepeatedCall =>
       \A k \in Dirs : REq(delta'.d.dels[k], delta.d.dels[k])]_vars

(* C7 amended: on a Dirichlet record a repeated call of normalize divides  *)
(* each distance by the cell size of its axis once more, so a distance is  *)
(* left unchanged only where it is zero or the cell size is 1.             *)
C7_RepeatedCallDividesAgain ==
  [][(RepeatedCall /\ ~delta.d.neumann) =>
       \A k \in Dirs :
         /\ delta'.d.dels[k][1] * CellSize(k) * delta.d.dels[k][2]
              = delta.d.dels[k][1] * delta'.d.dels[k][2]
         /\ REq(delta'.d.dels[k], delta.d.dels[k])
              <=> (delta.d.dels[k][1] = 0 \/ CellSize(k) = 1)]_vars

\* the centre of the box, cell size 2 in x, after two calls: -1 became -1/4
C7_Witness ==
  /\ delta.calls = 2 /\ ~delta.d.neumann /\ delta.dx = 2
  /\ delta.d.dels[1] = <<-1, 4>>

-----------------------------------------------------------------------------
(* Srfrv.checkarcs and the construction of ZSrfrvOut from tabulated data.  *)
(* An optional number is a sequence: None is empty, the number x is <<x>>. *)
(* The end points lie on even ticks, so that the mid point of a segment is *)
(* a lattice point; computed centres and radii are rounded to the lattice. *)

None == <<>>
Num(x) == <<x>>
Supplied(v) == ~(v = None \/ v = Num(largepos))

NoError == "none"

\* dcm*sin(angle1) and dcm*cos(angle1) for the projection d of the segment
Offset(rad, chord2, d) ==
  (sqrt(4 * rad * rad - chord2) * d) \div (2 * sqrt(chord2))

\* the body of the loop of checkarcs for the segment from (z0,r0) to (z1,r1)
CheckArc(z0, r0, z1, r1, rad, zc, rc) ==
  LET keep(e) == [rad |-> rad, zc |-> zc, rc |-> rc, error |-> e]
      chord2 == (z0 - z1) * (z0 - z1) + (r0 - r1) * (r0 - r1)
  IN  IF ~Supplied(rad) /\ ~Supplied(zc) /\ ~Supplied(rc)
        THEN [rad |-> Num(largepos), zc |-> Num(largepos),
              rc |-> Num(largepos), error |-> NoError]
      ELSE IF ~Supplied(zc) \/ ~Supplied(rc)
        THEN IF rad = None THEN keep("TypeError")
             ELSE IF ~(4 * rad[1] * rad[1] > chord2)
               THEN keep("AssertionError")
             ELSE IF chord2 = 0 THEN keep("ZeroDivisionError")
             ELSE LET zm == (z0 + z1) \div 2
                      rm == (r0 + r1) \div 2
                      ds == Offset(rad[1], chord2, r0 - r1)
                      dc == Offset(rad[1], chord2, Abs(z0 - z1))
                  IN  IF rad[1] < 0
                        THEN [rad |-> rad, zc |-> Num(zm + ds),
                              rc |-> Num(rm + dc), error |-> NoError]
                        ELSE [rad |-> rad, zc |-> Num(zm - ds),
                              rc |-> Num(rm - dc), error |-> NoError]
      ELSE IF ~Supplied(rad)
        THEN LET A == (z0 - zc[1]) * (z0 - zc[1]) + (r0 - rc[1]) * (r0 - rc[1])
                 B == (z1 - zc[1]) * (z1 - zc[1]) + (r1 - rc[1]) * (r1 - rc[1])
                 r == sqrt(A)
             IN  IF A = 0 THEN keep("ZeroDivisionError")
                 ELSE IF ~(9801 * A < 10000 * B /\ 10000 * B < 10201 * A)
                   THEN [keep("AssertionError") EXCEPT !.rad = Num(r)]
                 ELSE [rad |-> Num(IF rc[1] > r0 \/ rc[1] > r1 THEN -r ELSE r),
                       zc |-> zc, rc |-> rc, error |-> NoError]
      ELSE keep(NoError)

\* checkarcs from segment i on; the lists are updated in place and the first
\* exception ends the call
RECURSIVE checkarcsFrom(_, _, _, _, _, _)
checkarcsFrom(zz, rr, rad, zc, rc, i) ==
  IF i > Len(zz) - 1
    THEN [rad |-> rad, zc |-> zc, rc |-> rc, error |-> NoError]
  ELSE LET c == CheckArc(zz[i], rr[i], zz[i + 1], rr[i + 1],
                         rad[i], zc[i], rc[i])
           rad1 == [rad EXCEPT ![i] = c.rad]
           zc1 == [zc EXCEPT ![i] = c.zc]
           rc1 == [rc EXCEPT ![i] = c.rc]
       IN  IF c.error # NoError
             THEN [rad |-> rad1, zc |-> zc1, rc |-> rc1, error |-> c.error]
             ELSE checkarcsFrom(zz, rr, rad1, zc1, rc1, i + 1)

checkarcs(zz, rr, rad, zc, rc) == checkarcsFrom(zz, rr, rad, zc, rc, 1)

\* setdatadefaults: data None gives ndata defaults, otherwise the length
\* is asserted.  NoData stands for the argument None (no list of optional
\* numbers has a two-number element).
NoData == << <<0, 0>> >>
setdatadefaults(data, ndata, default) ==
  IF data = NoData THEN [i \in 1..ndata |-> default] ELSE data
WrongLength(data, ndata) == data # NoData /\ Len(data) # ndata

\* ZSrfrvOut.__init__ with tabulated data (rofzdata a sequence)
ZSrfrvOut(rofzdata, zdata, raddata, zcdata, rcdata) ==
  LET n == Len(zdata)
      rad0 == setdatadefaults(raddata, n - 1, None)
      zc0 == setdatadefaults(zcdata, n - 1, None)
      rc0 == setdatadefaults(rcdata, n - 1, None)
      c == checkarcs(zdata, rofzdata, rad0, zc0, rc0)
  IN  IF WrongLength(rofzdata, n) \/ WrongLength(raddata, n - 1)
         \/ WrongLength(zcdata, n - 1) \/ WrongLength(rcdata, n - 1)
        THEN [zdata |-> zdata, rofzdata |-> rofzdata, raddata |-> raddata,
              zcdata |-> zcdata, rcdata |-> rcdata,
              error |-> "AssertionError"]
        ELSE [zdata |-> zdata, rofzdata |-> rofzdata, raddata |-> c.rad,
              zcdata |-> c.zc, rcdata |-> c.rc, error |-> c.error]

\* the tabulated inputs: z on a fixed ladder, r, and per segment the radius
\* and the centre, each absent, largepos or a number
SrfrvZ == <<0, 2, 4>>
SrfrvR == {2, 4}
SrfrvRad == {None, Num(largepos), Num(1), Num(2), Num(-6)}
SrfrvZc == {None, Num(largepos), Num(1), Num(0)}
SrfrvRc == {None, Num(2), Num(0), Num(8)}
SrfrvPoints == {2, 3}

Lists(n, S) == [1..n -> S]

\* before the constructor has run
NoObject ==
  [zdata |-> <<>>, rofzdata |-> <<>>, raddata |-> <<>>, zcdata |-> <<>>,
   rcdata |-> <<>>, error |-> NoError]

InitSrfrv ==
  /\ \E n \in SrfrvPoints :
       \E rr \in Lists(n, SrfrvR),
          rad \in Lists(n - 1, SrfrvRad) \cup {NoData},
          zc \in Lists(n - 1, SrfrvZc) \cup {NoData},
          rc \in Lists(n - 1, SrfrvRc) \cup {NoData} :
         srfrv = [args |-> [rofzdata |-> rr, zdata |-> SubSeq(SrfrvZ, 1, n),
                            raddata |-> rad, zcdata |-> zc, rcdata |-> rc],
                  constructed |-> FALSE,
                  obj |-> NoObject]
  /\ grid = Idle /\ conductors = Idle /\ rzdb = Idle /\ solver = Idle
  /\ installedconductors = Idle /\ query = Idle /\ delta = Idle
  /\ ShapesIdle

Construct ==
  /\ ~srfrv.constructed
  /\ srfrv' = [srfrv EXCEPT
                 !.constructed = TRUE,
                 !.obj = ZSrfrvOut(srfrv.args.rofzdata, srfrv.args.zdata,
                                   srfrv.args.raddata, srfrv.args.zcdata,
                                   srfrv.args.rcdata)]
  /\ UNCHANGED <<query, grid, conductors, rzdb, solver,
                 installedconductors, delta, shapevars>>

NextSrfrv == Construct

SpecSrfrv == InitSrfrv /\ [][NextSrfrv]_vars

\* the arguments of segment i as checkarcs receives them
ArgOf(data, i) == IF data = NoData THEN None ELSE data[i]
\* squared distance of end point j from a centre
Dist2(j, zc, rc) ==
  LET z == srfrv.args.zdata[j]
      r == srfrv.args.rofzdata[j]
  IN  (z - zc) * (z - zc) + (r - rc) * (r - rc)
\* a and b agree to the 1% (of the radius) that the code tolerates
SameRadius2(a, b) == 9801 * a < 10000 * b /\ 10000 * b < 10201 * a

\* segment i is malformed: no circle of the stated radius (about the stated
\* centre, where given) passes through both end points, or the stated radius
\* is smaller than the chord
Malformed(i) ==
  LET rad == ArgOf(srfrv.args.raddata, i)
      zc == ArgOf(srfrv.args.zcdata, i)
      rc == ArgOf(srfrv.args.rcdata, i)
      dz == srfrv.args.zdata[i] - srfrv.args.zdata[i + 1]
      dr == srfrv.args.rofzdata[i] - srfrv.args.rofzdata[i + 1]
      chord2 == dz * dz + dr * dr
      centred == Supplied(zc) /\ Supplied(rc)
  IN  \/ Supplied(rad) /\ rad[1] * rad[1] < chord2
      \/ Supplied(rad) /\ centred
           /\ \E j \in {i, i + 1} :
                ~SameRadius2(rad[1] * rad[1], Dist2(j, zc[1], rc[1]))
      \/ ~Supplied(rad) /\ centred
           /\ ~SameRadius2(Dist2(i, zc[1], rc[1]), Dist2(i + 1, zc[1], rc[1]))

(* C10: constructing the shape fails whenever some arc segment is          *)
(* malformed, whichever of radius, zc, rc were supplied.                   *)
C10_MalformedArcFails ==
  (srfrv.constructed
     /\ \E i \in 1..(Len(srfrv.args.zdata) - 1) : Malformed(i))
    => srfrv.obj.error # NoError


-----------------------------------------------------------------------------
(* ConductorExtent objects.  An extent holds two arrays, mins and maxs;    *)
(* objects and arrays live in the heap and are named by their index, so    *)
(* that an array shared by two extents is one array.                       *)

MaxCombines == 1

\* copy.copy(a): a new array with the values of a
NewArray(h, a) == [h EXCEPT !.arrays = Append(@, a)]

\* ConductorExtent.__init__: mins and maxs are copied
NewExtent(h, e) ==
  [NewArray(NewArray(h, e.mins), e.maxs) EXCEPT
     !.extents = Append(@, [mins |-> Len(h.arrays) + 1,
                            maxs |-> Len(h.arrays) + 2])]

\* the values an extent object holds
ValueOf(h, i) ==
  ConductorExtent(h.arrays[h.extents[i].mins], h.arrays[h.extents[i].maxs])

\* toellipse: the y bounds are scaled in place
toellipse(h, i, ellipticity) ==
  [h EXCEPT !.arrays[h.extents[i].mins][2] = @ * ellipticity,
            !.arrays[h.extents[i].maxs][2] = @ * ellipticity]

ExtentOps == {"neg", "add", "mul", "sub"}

ApplyExtentOp(op, e, right) ==
  CASE op = "neg" -> Extent_neg(e)
    [] op = "add" -> Extent_add(e, right)
    [] op = "mul" -> Extent_mul(e, right)
    [] op = "sub" -> Extent_sub(e, right)

\* the extents of the primitives the run starts with
EBoxA == Box(<<2, 2, 2>>, <<0, 0, 0>>, 0, 1, FALSE)
EBoxB == Box(<<2, 4, 2>>, <<1, 0, 2>>, 0, 2, FALSE)
ESphere == Sphere(2, <<0, 1, 0>>, 0, 3, FALSE)
EPlane == Plane(1, 1, <<0, 0, 0>>, 0, 4, FALSE)
EPrimitives == <<EBoxA, EBoxB, ESphere, EPlane>>

NoExtentOp == [op |-> "none", left |-> 0, right |-> 0]

RECURSIVE CreateExtents(_, _)
CreateExtents(h, i) ==
  IF i > Len(EPrimitives) THEN h
  ELSE CreateExtents(NewExtent(h, getextent(EPrimitives[i])), i + 1)

InitExtent ==
  /\ heap = CreateExtents([arrays |-> <<>>, extents |-> <<>>,
                           last |-> NoExtentOp, combines |-> 0,
                           scaled |-> FALSE], 1)
  /\ nextcondid = Idle /\ listofallconductors = Idle
  /\ griddzkludge = Idle /\ workers = Idle
  /\ query = Idle /\ grid = Idle /\ conductors = Idle /\ rzdb = Idle
  /\ solver = Idle /\ installedconductors = Idle /\ delta = Idle
  /\ srfrv = Idle

ExtentFrame ==
  UNCHANGED <<query, grid, conductors, rzdb, solver, installedconductors,
              delta, srfrv, nextcondid, listofallconductors, griddzkludge,
              workers>>

\* -e, e + right, e * right, e - right on two extent objects
Combine ==
  /\ heap.combines < MaxCombines
  /\ \E op \in ExtentOps, i \in 1..Len(heap.extents),
        j \in 1..Len(heap.extents) :
       /\ op = "neg" => j = i
       /\ heap' = [NewExtent(heap, ApplyExtentOp(op, ValueOf(heap, i),
                                                 ValueOf(heap, j)))
                     EXCEPT !.last = [op |-> op, left |-> i, right |-> j],
                            !.combines = @ + 1]
  /\ ExtentFrame

\* an elliptic assembly scales the extent it holds
ToEllipse ==
  /\ ~heap.scaled
  /\ \E i \in 1..Len(heap.extents) :
       heap' = [toellipse(heap, i, 2) EXCEPT
                  !.last = [op |-> "toellipse", left |-> i, right |-> i],
                  !.scaled = TRUE]
  /\ ExtentFrame

NextExtent == Combine \/ ToEllipse

SpecExtent == InitExtent /\ [][NextExtent]_vars

\* the step creates the combination op of the extents left and right
CombineStep(op, i, j) ==
  /\ heap'.combines = heap.combines + 1
  /\ heap'.last = [op |-> op, left |-> i, right |-> j]

Combined == ValueOf(heap', Len(heap'.extents))

(* C13: the extent of AND(a,b) is [elementwise max of mins, elementwise    *)
(* min of maxs], of OR(a,b) [elementwise min of mins, elementwise max of   *)
(* maxs], of NOT(a) the full domain -largepos..largepos on every axis, of  *)
(* MINUS(a,b) exactly a's extent; and combining changes the extent of      *)
(* neither operand.                                                        *)
C13_ExtentsCombine ==
  [][\A op \in ExtentOps, i \in 1..Len(heap.extents),
        j \in 1..Len(heap.extents) :
       CombineStep(op, i, j) =>
         LET a == ValueOf(heap, i)
             b == ValueOf(heap, j)
         IN  /\ op = "mul" =>
                  \A k \in 1..3 :
                    /\ Combined.mins[k] = Max2(a.mins[k], b.mins[k])
                    /\ Combined.maxs[k] = Min2(a.maxs[k], b.maxs[k])
             /\ op = "add" =>
                  \A k \in 1..3 :
                    /\ Combined.mins[k] = Min2(a.mins[k], b.mins[k])
                    /\ Combined.maxs[k] = Max2(a.maxs[k], b.maxs[k])
             /\ op = "neg" => Combined = FullDomain
             /\ op = "sub" => Combined = a
             /\ \A k \in 1..Len(heap.extents) :
                  ValueOf(heap', k) = ValueOf(heap, k)]_vars

\* a MINUS of a scaled left operand and a right operand of another extent
C13_Witness ==
  /\ heap.combines = 1 /\ heap.scaled
  /\ heap.last = [op |-> "sub", left |-> 1, right |-> 2]
  /\ ValueOf(heap, 5) = ValueOf(heap, 1)
  /\ ValueOf(heap, 1) = ConductorExtent(<<-1, -2, -1>>, <<1, 2, 1>>)
  /\ ValueOf(heap, 2) = ConductorExtent(<<0, -2, 1>>, <<2, 2, 3>>)


-----------------------------------------------------------------------------
(* Conductor ids: Assembly.__init__ with an explicit condid, the default   *)
(* condid=1, or condid='next'.                                             *)

MaxAssemblies == 4
MaxCondid == 3

\* the condid argument: 'next' or an integer
CondidNext == <<>>
CondidArgs == {CondidNext} \cup {<<n>> : n \in 1..MaxCondid}

\* Assembly.__init__: the new assembly joins listofallconductors; with
\* 'next' it takes Assembly.nextcondid, which is then incremented
AssemblyInit(st, condid, left) ==
  IF condid = CondidNext
    THEN [nextcondid |-> st.nextcondid + 1,
          list |-> Append(st.list, [condid |-> st.nextcondid, next |-> TRUE,
                                    left |-> left])]
    ELSE [nextcondid |-> st.nextcondid,
          list |-> Append(st.list, [condid |-> condid[1], next |-> FALSE,
                                    left |-> left])]

InitCondid ==
  /\ nextcondid = 1
  /\ listofallconductors = <<>>
  /\ heap = Idle /\ griddzkludge = Idle /\ workers = Idle
  /\ query = Idle /\ grid = Idle /\ conductors = Idle /\ rzdb = Idle
  /\ solver = Idle /\ installedconductors = Idle /\ delta = Idle
  /\ srfrv = Idle

CondidFrame ==
  UNCHANGED <<query, grid, conductors, rzdb, solver, installedconductors,
              delta, srfrv, heap, griddzkludge, workers>>

Constructed(st) ==
  /\ nextcondid' = st.nextcondid
  /\ listofallconductors' = st.list

\* a primitive is constructed: Box(..., condid=c)
ConstructPrimitive ==
  /\ Len(listofallconductors) < MaxAssemblies
  /\ \E c \in CondidArgs :
       Constructed(AssemblyInit([nextcondid |-> nextcondid,
                                 list |-> listofallconductors], c, 0))
  /\ CondidFrame

\* a composite is constructed from assembly l: it is given l.condid
ConstructComposite ==
  /\ Len(listofallconductors) < MaxAssemblies
  /\ \E l \in 1..Len(listofallconductors) :
       Constructed(AssemblyInit([nextcondid |-> nextcondid,
                                 list |-> listofallconductors],
                                <<listofallconductors[l].condid>>, l))
  /\ CondidFrame

NextCondid == ConstructPrimitive \/ ConstructComposite

SpecCondid == InitCondid /\ [][NextCondid]_vars

\* assembly j is a conductor of its own, not a combination of others
IsPrimitiveAt(j) == listofallconductors[j].left = 0

(* C14: a shape constructed with condid='next' receives a unique conductor *)
(* id: no other primitive, whether constructed with an explicit id, the    *)
(* default id or 'next', has the same id, and the counter never hands out  *)
(* the same id twice.                                                      *)
C14_NextIdUnique ==
  \A i \in 1..Len(listofallconductors), j \in 1..Len(listofallconductors) :
    (i # j /\ listofallconductors[i].next /\ IsPrimitiveAt(j)) =>
      listofallconductors[i].condid # listofallconductors[j].condid


-----------------------------------------------------------------------------
(* Sampling by two workers.  Each worker runs the loop body of getdata for *)
(* its own shape and multigrid level on the same Grid, with its own        *)
(* accumulator; a step is one call of getmesh or the handling of one z     *)
(* slice, and the steps of the two workers interleave.                     *)

MaxWorkerLevel == 1

Workers == {1, 2}

\* a surface of revolution given by tabulated data, as sampling sees it
SampledSrfrv(zmin, zmax, rmax, cent, v, condid) ==
  [kind |-> "ZSrfrvOut", zmin |-> zmin, zmax |-> zmax, rmax |-> rmax,
   cent |-> cent, voltage |-> v, condid |-> condid, neumann |-> FALSE]

WBox == Box(<<4, 4, 4>>, <<0, 0, 0>>, 1, 1, FALSE)
WSrfrv == SampledSrfrv(-2, 2, 2, <<0, 0, 0>>, 2, 2)
WShapes == {WBox, WSrfrv}
WTasks == [shape : WShapes, mglevel : 0..MaxWorkerLevel]
WMesh == Mesh3D(4, 4, 8)
WDfill == 3

\* ZSrfrvOut.getkwlist and the call of the compiled generator it feeds:
\* griddz is taken from _griddzkludge at the time of the call
SrfrvGridDistance(a, kludge, kz) ==
  [generator |-> "zsrfrvoutconductorf",
   kwlist |-> <<a.zmin, a.zmax, a.rmax, kludge>>, cent |-> a.cent, iz |-> kz]

\* the record one z slice adds to the accumulator
SliceRecord(g, t, mesh, kz, kludge) ==
  IF t.shape.kind = "ZSrfrvOut"
    THEN SrfrvGridDistance(t.shape, kludge, kz)
    ELSE Slice(g, t.shape, t.mglevel, mesh, kz, WDfill, -1)

NoSlices(mesh) == MeshLen(mesh) = 0 \/ Len(mesh.iz) = 0

InitWorkers ==
  /\ grid = [g |-> Grid(WMesh),
             args |-> RunArgs(WMesh, WShapes, WDfill, FALSE, "XYZgeom"),
             calls |-> <<>>]
  /\ griddzkludge = 0
  /\ \E t1 \in WTasks, t2 \in WTasks :
       /\ t1 # t2
       /\ workers = [w \in Workers |->
                       [task |-> IF w = 1 THEN t1 ELSE t2, pc |-> "getmesh",
                        mesh |-> EmptyMesh, next |-> 1, acc |-> <<>>]]
  /\ heap = Idle /\ nextcondid = Idle /\ listofallconductors = Idle
  /\ query = Idle /\ conductors = Idle /\ rzdb = Idle /\ solver = Idle
  /\ installedconductors = Idle /\ delta = Idle /\ srfrv = Idle

WorkersFrame ==
  UNCHANGED <<query, grid, conductors, rzdb, solver, installedconductors,
              delta, srfrv, heap, nextcondid, listofallconductors>>

\* getmesh(i, aextent): the cell size goes into _griddzkludge
GetMesh ==
  \E w \in Workers :
    /\ workers[w].pc = "getmesh"
    /\ \E mesh \in {getmesh(grid.g, workers[w].task.mglevel,
                            getextent(workers[w].task.shape))} :
         workers' = [workers EXCEPT
                       ![w].mesh = mesh,
                       ![w].pc = IF NoSlices(mesh) THEN "done" ELSE "slices"]
    /\ griddzkludge' = getmeshsize(grid.g, workers[w].task.mglevel).dz
    /\ WorkersFrame

\* one pass of the loop over zmesh: griddistance .. dall.append(d)
SampleSlice ==
  \E w \in Workers :
    /\ workers[w].pc = "slices"
    /\ workers' = [workers EXCEPT
         ![w].acc = Append(@, SliceRecord(grid.g, workers[w].task,
                                          workers[w].mesh,
                                          workers[w].mesh.iz[workers[w].next],
                                          griddzkludge)),
         ![w].next = @ + 1,
         ![w].pc = IF workers[w].next = Len(workers[w].mesh.iz)
                     THEN "done" ELSE "slices"]
    /\ UNCHANGED griddzkludge
    /\ WorkersFrame

NextWorkers == GetMesh \/ SampleSlice

SpecWorkers == InitWorkers /\ [][NextWorkers]_vars

\* the records the task produces when its worker runs alone
Alone(t) ==
  LET mesh == getmesh(grid.g, t.mglevel, getextent(t.shape))
  IN  IF NoSlices(mesh) THEN <<>>
      ELSE [s \in 1..Len(mesh.iz) |->
              SliceRecord(grid.g, t, mesh, mesh.iz[s],
                          getmeshsize(grid.g, t.mglevel).dz)]

(* C15: when two workers sample different shapes or different levels, each *)
(* with its own accumulator, then under every interleaving the records a   *)
(* worker has produced when it is done equal the records it produces when  *)
(* run alone.                                                              *)
C15_WorkersIndependent ==
  \A w \in Workers :
    workers[w].pc = "done" => workers[w].acc = Alone(workers[w].task)


-----------------------------------------------------------------------------
(* The Delta of one mesh point through griddistance of a binary composite, *)
(* normalize and setparity, as in the loop body of Grid.getdata.  The mesh *)
(* has the same cell size d in x, y and z and its origin at (-d,-d,-d).    *)

DMaxIndex == 2
DMaxCell == 2
DMaxDfill == 2

DBoxA == Box(<<2, 2, 2>>, <<0, 0, 0>>, 1, 1, FALSE)
DBoxB == Box(<<4, 4, 2>>, <<1, 0, 0>>, 2, 2, FALSE)
DBoxC == Box(<<8, 8, 8>>, <<0, 0, 0>>, 3, 3, FALSE)
DBoxN == Box(<<2, 2, 2>>, <<0, 0, 0>>, 0, 4, TRUE)
DShapes == {DBoxA, DBoxB, DBoxC, DBoxN}
DOps == {"mul", "add", "sub"}
DIndices == 0..DMaxIndex
DCells == 1..DMaxCell
DFillDepths == 1..DMaxDfill
\* how far the right operand's surface is moved outward: not at all, or by
\* the 1.e-10 of the zero thickness test
DGrowths == {Rat(0), fuzz10}

\* the distances to a shape whose surface lies eps further out
Grown(d, eps) ==
  [d EXCEPT !.dels =
     [k \in Dirs |-> IF Abs(d.dels[k][1]) = largepos THEN d.dels[k]
                     ELSE RSub(d.dels[k], eps)]]

InitDelta ==
  /\ \E a \in DShapes, b \in DShapes, op \in DOps, eps \in DGrowths,
        ix \in DIndices, iz \in DIndices, d \in DCells,
        dfill \in DFillDepths :
       LET p == <<(ix - 1) * d, 0, (iz - 1) * d>>
       IN  delta = [l |-> griddistance(a, p),
                    r |-> Grown(griddistance(b, p), eps),
                    op |-> op, d |-> griddistance(a, p),
                    dx |-> d, dy |-> d, dz |-> d,
                    ix |-> ix, iy |-> 1, iz |-> iz, dfill |-> dfill,
                    stage |-> "sampled", parity |-> farparity]
  /\ grid = Idle /\ conductors = Idle /\ rzdb = Idle /\ solver = Idle
  /\ installedconductors = Idle /\ query = Idle /\ srfrv = Idle
  /\ ShapesIdle

DeltaFrame ==
  UNCHANGED <<query, grid, conductors, rzdb, solver, installedconductors,
              srfrv, shapevars>>

DeltaOp(op, s, right) ==
  CASE op = "mul" -> Delta_mul(s, right)
    [] op = "add" -> Delta_add(s, right)
    [] op = "sub" -> Delta_sub(s, right)

\* a.griddistance of the composite: left op right
DeltaCombine ==
  /\ delta.stage = "sampled"
  /\ \E d \in {DeltaOp(delta.op, delta.l, delta.r)} :
       delta' = [delta EXCEPT !.d = d,
                   !.stage = IF d.err THEN "failed" ELSE "combined"]
  /\ DeltaFrame

\* d.normalize(dx,dy,dz)
DeltaNormalize ==
  /\ delta.stage = "combined"
  /\ delta' = [delta EXCEPT
                 !.d.dels = normalize(delta.d.dels, delta.d.neumann,
                                      delta.dx, delta.dy, delta.dz),
                 !.stage = "normalized"]
  /\ DeltaFrame

\* d.setparity(dfill,fuzzsign)
DeltaSetParity ==
  /\ delta.stage = "normalized"
  /\ delta' = [delta EXCEPT
                 !.parity = setparity(delta.ix, delta.iy, delta.iz,
                                      delta.d.dels, delta.d.neumann,
                                      delta.dfill, -1),
                 !.stage = "classified"]
  /\ DeltaFrame

NextDelta == DeltaCombine \/ DeltaNormalize \/ DeltaSetParity

SpecDelta == InitDelta /\ [][NextDelta]_vars


CombinedBy(op) ==
  /\ delta.stage = "sampled" /\ delta.op = op
  /\ delta'.stage = "combined"

\* the larger and the smaller of two distances
RMax2(x, y) == IF RLess(x, y) THEN y ELSE x
RMin2(x, y) == IF RLess(y, x) THEN y ELSE x

\* direction k of the result holds distance x with the voltage and id of
\* operand s
TakenFrom(res, k, x, s) ==
  /\ REq(res.dels[k], x)
  /\ res.vs[k] = s.vs[k]
  /\ res.ns[k] = s.ns[k]

\* the operand whose distance is x in direction k, the left one on a tie
Owner(l, r, k, x) == IF REq(l.dels[k], x) THEN l ELSE r

\* C17: in every direction 'and' returns the larger and 'or' the smaller of
\* the two signed distances, with the voltage and the conductor id of the
\* operand the distance was taken from; where the two distances are equal
\* the distance, voltage and id are the left operand's.
C17_AndMaxOrMin ==
  [][/\ CombinedBy("mul") =>
          \A k \in Dirs :
            LET x == RMax2(delta.l.dels[k], delta.r.dels[k])
            IN  TakenFrom(delta'.d, k, x, Owner(delta.l, delta.r, k, x))
     /\ CombinedBy("add") =>
          \A k \in Dirs :
            LET x == RMin2(delta.l.dels[k], delta.r.dels[k])
            IN  TakenFrom(delta'.d, k, x, Owner(delta.l, delta.r, k, x))]_vars

\* an 'and' of two conductors at different voltages with a direction where
\* the distances are equal and one where the right distance is the larger
C17_Witness ==
  /\ delta.stage = "combined" /\ delta.op = "mul"
  /\ \E k \in Dirs :
       /\ REq(delta.l.dels[k], delta.r.dels[k])
       /\ delta.l.vs[k] # delta.r.vs[k]
       /\ delta.d.vs[k] = delta.l.vs[k]
  /\ \E k \in Dirs :
       /\ RLess(delta.l.dels[k], delta.r.dels[k])
       /\ delta.d.ns[k] = delta.r.ns[k]


\* direction k of res is direction k of want: distance, voltage and id
SameIn(res, want, k) ==
  /\ REq(res.dels[k], want.dels[k])
  /\ res.vs[k] = want.vs[k]
  /\ res.ns[k] = want.ns[k]

\* 'minus' is 'and' with the negation except in the directions of shell
Minus(res, l, r, shell) ==
  \A k \in Dirs :
    IF shell[k] THEN REq(res.dels[k], RLargepos)
    ELSE SameIn(res, Delta_mul(l, Delta_neg(r)), k)

\* the directions where the two distances, divided by tick[k], differ by
\* less than 1.e-10
Within10(l, r, tick) ==
  [k \in Dirs |->
     RLess(RAbs(RSub(RDiv(l.dels[k], tick[k]), RDiv(r.dels[k], tick[k]))),
           fuzz10)]

\* C18 as stated: the result of 'minus' is the 'and' of a with 'not' b where
\* the distances of a and b differ by at least 1.e-10 of a cell, and far
\* where they differ by less than that.
C18_AsStated ==
  [][CombinedBy("sub") =>
       Minus(delta'.d, delta.l, delta.r,
             Within10(delta.l, delta.r,
                      Spacing(delta.dx, delta.dy, delta.dz)))]_vars

\* C18: the result of 'minus' is the 'and' of a with 'not' b (distance,
\* voltage and conductor id) in every direction where the distances of a and
\* b, as griddistance returns them before normalize, differ by at least
\* 1.e-10, and far (largepos) where they differ by less.
C18_MinusIsAndNot ==
  [][CombinedBy("sub") =>
       Minus(delta'.d, delta.l, delta.r,
             Within10(delta.l, delta.r, Spacing(1, 1, 1)))]_vars

\* a 'minus' on cells of size 2 where the two surfaces are 1.e-10 apart in
\* some direction, which is not made far
C18_Witness ==
  /\ delta.stage = "combined" /\ delta.op = "sub" /\ delta.dx = 2
  /\ \E k \in Dirs :
       /\ REq(RAbs(RSub(delta.l.dels[k], delta.r.dels[k])), fuzz10)
       /\ ~REq(delta.d.dels[k], RLargepos)
       /\ SameIn(delta.d, Delta_mul(delta.l, Delta_neg(delta.r)), k)

\* a 'minus' with a direction made far because the two surfaces coincide
C18_ShellRemoved ==
  /\ delta.stage = "combined" /\ delta.op = "sub"
  /\ \E k \in Dirs :
       /\ REq(delta.l.dels[k], delta.r.dels[k])
       /\ Abs(delta.l.dels[k][1]) # largepos
       /\ REq(delta.d.dels[k], RLargepos)


Classified == delta.stage = "classified"

\* the fill depth and the outside fuzz in force for the classified data
FillDepth == IF delta.d.neumann THEN 0 ELSE delta.dfill
OutsideFuzz == IF delta.d.neumann THEN Rat(0) ELSE RNeg(fuzz9)

CellParity == (delta.ix + delta.iy + delta.iz) % 2

\* some distance of dels lies in the open interval (lo, hi)
SomeBetween(dels, lo, hi) ==
  \E k \in Dirs : RLess(lo, dels[k]) /\ RLess(dels[k], hi)

\* some distance of dels lies in [lo, hi)
SomeFrom(dels, lo, hi) ==
  \E k \in Dirs : ~RLess(dels[k], lo) /\ RLess(dels[k], hi)

InsideAll == RLess(RMaxOf(delta.d.dels), OutsideFuzz)
Shallow == RLess(Rat(-FillDepth), RMaxOf(delta.d.dels))
NearSurface ==
  SomeFrom(delta.d.dels, OutsideFuzz, RSub(Rat(1), fuzz9))

C19_DeepIsFar ==
  /\ Classified /\ delta.parity = farparity
  /\ RLess(RMaxOf(delta.d.dels), Rat(-FillDepth))
  /\ ~delta.d.neumann

\* a Neumann point on the surface, a cut cell
C19_NeumannOnSurface ==
  /\ Classified /\ delta.d.neumann
  /\ \E k \in Dirs : delta.d.dels[k][1] = 0
  /\ delta.parity = CellParity


-----------------------------------------------------------------------------
(* The arrays of the Delta of one z slice through the loop body of         *)
(* Grid.getdata: every attribute is an array with one entry per point      *)
(* (dels, vs and ns one 6-tuple per point).                                *)

MaxBatchLevels == 2

\* take(arr, ii): the entries of arr at the indices ii
take(arr, ii) == [j \in 1..Len(ii) |-> arr[ii[j]]]

\* nonzero(flags): the indices where the flag holds, in order
nonzero(flags) ==
  SelectSeq([k \in 1..Len(flags) |-> k], LAMBDA k : flags[k])

\* Delta.__init__ on the points of a slice: ndata = len(ix), the distances
\* of the shape, setvoltages, setcondids and setlevels(0); no parity yet
Delta_init(g, a, mesh, kz) ==
  LET n == MeshLen(mesh)
      ly == Len(mesh.iy)
      jx(k) == mesh.ix[((k - 1) \div ly) + 1]
      jy(k) == mesh.iy[((k - 1) % ly) + 1]
      p(k) == <<g.xmmin + mesh.dx * jx(k), g.ymmin + mesh.dy * jy(k),
                mesh.zmmin + mesh.dz * kz>>
  IN  [ndata |-> n,
       ix |-> [k \in 1..n |-> jx(k)], iy |-> [k \in 1..n |-> jy(k)],
       iz |-> [k \in 1..n |-> kz],
       xx |-> [k \in 1..n |-> p(k)[1]], yy |-> [k \in 1..n |-> p(k)[2]],
       zz |-> [k \in 1..n |-> p(k)[3]],
       dels |-> [k \in 1..n |-> griddistance(a, p(k)).dels],
       vs |-> [k \in 1..n |-> griddistance(a, p(k)).vs],
       ns |-> [k \in 1..n |-> griddistance(a, p(k)).ns],
       parity |-> <<>>,
       mglevel |-> [k \in 1..n |-> 0],
       neumann |-> a.neumann]

Delta_normalize(d, dx, dy, dz) ==
  [d EXCEPT !.dels = [k \in 1..Len(d.dels) |->
                        normalize(d.dels[k], d.neumann, dx, dy, dz)]]

\* parity = zeros(ndata) + 999, then classified point by point
Delta_setparity(d, dfill, fuzzsign) ==
  [d EXCEPT !.parity =
     [k \in 1..d.ndata |->
        setparity(d.ix[k], d.iy[k], d.iz[k], d.dels[k], d.neumann,
                  dfill, fuzzsign)]]

\* clean takes the entries of parity < 2 from every array but mglevel
Delta_clean(d) ==
  LET ii == nonzero([k \in 1..Len(d.parity) |-> d.parity[k] < 2])
  IN  [d EXCEPT !.ix = take(d.ix, ii), !.iy = take(d.iy, ii),
                !.iz = take(d.iz, ii), !.xx = take(d.xx, ii),
                !.yy = take(d.yy, ii), !.zz = take(d.zz, ii),
                !.dels = take(d.dels, ii), !.vs = take(d.vs, ii),
                !.ns = take(d.ns, ii), !.parity = take(d.parity, ii),
                !.ndata = Len(ii)]

Delta_setlevels(d, level) ==
  [d EXCEPT !.mglevel = [k \in 1..d.ndata |-> level]]

\* a loop body that tags the levels before it cleans
SliceArrays_levelsfirst(g, a, mglevel, mesh, kz, dfill, fuzzsign) ==
  Delta_clean(
    Delta_setlevels(
      Delta_setparity(
        Delta_normalize(Delta_init(g, a, mesh, kz),
                        mesh.dx, mesh.dy, mesh.dz),
        dfill, fuzzsign),
      mglevel))

\* the loop body of getdata: griddistance, normalize, setparity, clean,
\* setlevels
SliceArrays(g, a, mglevel, mesh, kz, dfill, fuzzsign) ==
  Delta_setlevels(
    Delta_clean(
      Delta_setparity(
        Delta_normalize(Delta_init(g, a, mesh, kz),
                        mesh.dx, mesh.dy, mesh.dz),
        dfill, fuzzsign)),
    mglevel)

BatchPlane == Plane(0, 1, <<0, 0, 0>>, 5, 5, FALSE)
BatchShapes ==
  {TheBox, SmallBox, NeumannBox, EdgeBoxX, BatchPlane,
   AssemblyMinus(TheBox, SmallBox)}
BatchMeshes == {Mesh3D(4, 4, 8), Mesh2D(4, 2, 4, 4)}
BatchDfills == {1, 3}

InitBatch ==
  /\ \E mesh \in BatchMeshes, a \in BatchShapes, dfill \in BatchDfills :
       delta = [g |-> Grid(mesh), a |-> a, dfill |-> dfill, level |-> 0,
                mesh |-> EmptyMesh, next |-> 0, pc |-> "getmesh",
                datalist |-> <<>>, levels |-> <<>>]
  /\ grid = Idle /\ conductors = Idle /\ rzdb = Idle /\ solver = Idle
  /\ installedconductors = Idle /\ query = Idle /\ srfrv = Idle
  /\ ShapesIdle

BatchLevels(g) == Min2(g.mglevels, MaxBatchLevels)

\* for i in range(mglevels): getmesh(i, aextent); an empty mesh moves on
BatchGetMesh ==
  /\ delta.pc = "getmesh"
  /\ delta.level < BatchLevels(delta.g)
  /\ \E mesh \in {getmesh(delta.g, delta.level, getextent(delta.a))} :
       delta' = IF NoSlices(mesh)
                  THEN [delta EXCEPT !.level = @ + 1]
                  ELSE [delta EXCEPT !.mesh = mesh, !.next = 1,
                                     !.pc = "slices"]
  /\ DeltaFrame

\* for zz in zmesh: the loop body and dall.append(d)
BatchSlice ==
  /\ delta.pc = "slices"
  /\ \E d \in {SliceArrays(delta.g, delta.a, delta.level, delta.mesh,
                           delta.mesh.iz[delta.next], delta.dfill, -1)} :
       delta' = [delta EXCEPT
                   !.datalist = Append(@, d),
                   !.levels = Append(@, delta.level),
                   !.next = @ + 1,
                   !.pc = IF delta.next = Len(delta.mesh.iz)
                            THEN "getmesh" ELSE "slices",
                   !.level = IF delta.next = Len(delta.mesh.iz)
                               THEN @ + 1 ELSE @]
  /\ DeltaFrame

NextBatch == BatchGetMesh \/ BatchSlice

SpecBatch == InitBatch /\ [][NextBatch]_vars

\* the lengths of the arrays of d that hold one entry per point
ArrayLengths(d) ==
  {Len(d.ix), Len(d.iy), Len(d.iz), Len(d.xx), Len(d.yy), Len(d.zz),
   Len(d.dels), Len(d.vs), Len(d.ns), Len(d.parity), Len(d.mglevel)}

Appended == 1..Len(delta.datalist)

(* C22: every record getdata appends to the accumulator holds only points  *)
(* of parity -1, 0 or 1, its index, coordinate, distance, voltage, id,     *)
(* parity and level arrays all have the length ndata, and every level tag  *)
(* is the level the slice was sampled at.                                  *)
C22_RecordsWellFormed ==
  \A s \in Appended :
    /\ ArrayLengths(delta.datalist[s]) = {delta.datalist[s].ndata}
    /\ \A k \in 1..Len(delta.datalist[s].parity) :
         delta.datalist[s].parity[k] \in {-1, 0, 1}
    /\ \A k \in 1..Len(delta.datalist[s].mglevel) :
         delta.datalist[s].mglevel[k] = delta.levels[s]

\* a level-1 record from which clean removed far points and kept others
C22_Witness ==
  \E s \in Appended :
    /\ delta.levels[s] = 1
    /\ delta.datalist[s].ndata > 0
    /\ delta.datalist[s].ndata
         < MeshLen(getmesh(delta.g, 1, getextent(delta.a)))
    /\ \E k \in 1..delta.datalist[s].ndata :
         delta.datalist[s].parity[k] = -1


-----------------------------------------------------------------------------
(* Delta.normalize on the six distances of one point of a Neumann Delta,   *)
(* given as data (the dels argument of the constructor).                   *)

MaxNeumannCell == 2

\* distances in cells: deep inside, a cell inside, half a cell inside,
\* inside within the fuzz, on the surface, half a cell outside, outside
\* within the fuzz of 1, a cell outside, no surface
NeumannValues ==
  {Rat(-2), Rat(-1), <<-1, 2>>, <<-1, 4000>>, Rat(0), <<1, 2>>,
   <<3999, 4000>>, Rat(1)}
NeumannPairs ==
  {<<Rat(-2), Rat(-2)>>, <<Rat(-1), <<1, 2>>>>, <<RLargepos, RLargepos>>}
NeumannCells == 1..MaxNeumannCell

\* x cells of size d
Cells(x, d) == <<x[1] * d, x[2]>>

InitNeumann ==
  /\ \E x0 \in NeumannValues, x1 \in NeumannValues, yy \in NeumannPairs,
        z0 \in NeumannValues, d \in NeumannCells, neumann \in BOOLEAN :
       delta = [d |-> Delta(<<Cells(x0, d), Cells(x1, d), Cells(yy[1], d),
                               Cells(yy[2], d), Cells(z0, d), RLargepos>>,
                             [k \in Dirs |-> 0], [k \in Dirs |-> 1], neumann),
                dx |-> d, dy |-> d, dz |-> d, calls |-> 0,
                raw |-> <<>>]
  /\ grid = Idle /\ conductors = Idle /\ rzdb = Idle /\ solver = Idle
  /\ installedconductors = Idle /\ query = Idle /\ srfrv = Idle
  /\ ShapesIdle

\* d.normalize(dx,dy,dz), once
NormalizeNeumann ==
  /\ delta.calls = 0
  /\ delta' = [delta EXCEPT
                 !.raw = delta.d.dels,
                 !.d.dels = normalize(delta.d.dels, delta.d.neumann,
                                      delta.dx, delta.dy, delta.dz),
                 !.calls = 1]
  /\ DeltaFrame

NextNeumann == NormalizeNeumann

SpecNeumann == InitNeumann /\ [][NextNeumann]_vars

Negative(x) == RLess(x, Rat(0))
Positive(x) == RLess(Rat(0), x)

\* the point has a direction inside and another outside
Straddles(dels) ==
  /\ \E k \in Dirs : Negative(dels[k])
  /\ \E k \in Dirs : Positive(dels[k])

NormalizedNeumann(d, e) ==
  /\ d.calls = 0 /\ e.calls = 1 /\ d.d.neumann

\* C24 as stated: a Neumann point that straddles the surface leaves
\* normalize with all six distances at -2, so no Neumann point leaves it with
\* a negative and a positive distance.
C24_AsStated ==
  [][NormalizedNeumann(delta, delta') =>
       /\ Straddles(delta.d.dels) =>
            \A k \in Dirs : REq(delta'.d.dels[k], Rat(-2))
       /\ ~Straddles(delta'.d.dels)]_vars

\* C24: a Neumann point that straddles the surface leaves normalize with
\* none of its distances positive: the distances that were outside are
\* forced to deep interior (-2), or to 0 where the opposite direction was
\* inside within the fuzz, while the distances that were inside are not all
\* forced to -2; so no Neumann point leaves normalize with a negative and a
\* positive distance.
C24_StraddlingMadeInside ==
  [][NormalizedNeumann(delta, delta') =>
       /\ Straddles(delta.d.dels) =>
            \A k \in Dirs :
              /\ ~Positive(delta'.d.dels[k])
              /\ Positive(delta.d.dels[k]) =>
                   \/ REq(delta'.d.dels[k], Rat(-2))
                   \/ REq(delta'.d.dels[k], Rat(0))
       /\ ~Straddles(delta'.d.dels)]_vars

\* a straddling Neumann point after normalize: an outside distance is now -2
\* and an inside distance is still a cell inside
C24_Witness ==
  /\ delta.calls = 1 /\ delta.d.neumann
  /\ Straddles(delta.raw)
  /\ \E k \in Dirs : Positive(delta.raw[k]) /\ REq(delta.d.dels[k], Rat(-2))
  /\ \E k \in Dirs : REq(delta.d.dels[k], Rat(-1))

-----------------------------------------------------------------------------
(* Result objects of the combination operators.  A Delta, Distance,        *)
(* IsInside, Intercept or ConductorExtent is an object of the heap whose   *)
(* array attributes name arrays of the heap, so that an array held by two  *)
(* objects and a write into an array both show.  All objects of a run are  *)
(* of one class and were computed at the same point.                       *)

MaxOperations == 2

ResultClasses ==
  {"Delta", "Distance", "IsInside", "Intercept", "ConductorExtent"}

\* the attributes of each class that hold arrays
AttrSeq(class) ==
  CASE class = "Delta" -> <<"dels", "vs", "ns">>
    [] class = "Distance" -> <<"distance">>
    [] class = "IsInside" -> <<"isinside">>
    [] class = "Intercept" -> <<"xi", "yi", "zi", "itheta", "iphi">>
    [] class = "ConductorExtent" -> <<"mins", "maxs">>

ArrayAttrs(class) == {AttrSeq(class)[k] : k \in 1..Len(AttrSeq(class))}

\* the constructor: the arrays of value named in shared are the operand's
\* own arrays, every other array is a new one
NewObject(h, class, value, shared) ==
  LET fresh == SelectSeq(AttrSeq(class), LAMBDA a : a \notin DOMAIN shared)
      at(a) == CHOOSE k \in 1..Len(fresh) : fresh[k] = a
  IN  [h EXCEPT
         !.arrays = @ \o [k \in 1..Len(fresh) |-> value[fresh[k]]],
         !.objs = Append(@,
           [class |-> class,
            refs |-> [a \in ArrayAttrs(class) |->
                        IF a \in DOMAIN shared THEN shared[a]
                        ELSE Len(h.arrays) + at(a)],
            scalars |-> [a \in (DOMAIN value) \ ArrayAttrs(class) |->
                           value[a]]])]

\* what object o holds
Held(h, o) ==
  LET obj == h.objs[o]
  IN  [a \in (DOMAIN obj.refs) \cup (DOMAIN obj.scalars) |->
         IF a \in DOMAIN obj.refs THEN h.arrays[obj.refs[a]]
         ELSE obj.scalars[a]]

\* obj.attr[:] = value: the array the attribute names is written
Rebind_inplace(h, o, attr, value) ==
  [h EXCEPT !.arrays[h.objs[o].refs[attr]] = value]

\* obj.attr = value: the attribute names a new array
Rebind(h, o, attr, value) ==
  [NewArray(h, value) EXCEPT !.objs[o].refs[attr] = Len(h.arrays) + 1]

\* the value the operator computes from what the operands hold
ApplyOp(class, op, s, right, p) ==
  CASE class = "Delta" ->
         (CASE op = "neg" -> Delta_neg(s)
            [] op = "mul" -> Delta_mul(s, right)
            [] op = "add" -> Delta_add(s, right)
            [] op = "sub" -> Delta_sub(s, right))
    [] class = "Distance" ->
         [distance |->
            CASE op = "neg" -> Distance_neg(s.distance)
              [] op = "mul" -> Distance_mul(s.distance, right.distance)
              [] op = "add" -> Distance_add(s.distance, right.distance)
              [] op = "sub" -> Distance_sub(s.distance, right.distance)]
    [] class = "IsInside" ->
         (CASE op = "neg" -> IsInside_neg(s)
            [] op = "mul" -> IsInside_mul(s, right)
            [] op = "add" -> IsInside_add(s, right)
            [] op = "sub" -> IsInside_sub(s, right))
    [] class = "Intercept" ->
         (CASE op = "neg" -> Intercept_neg(s)
            [] op = "mul" -> Intercept_mul(s, right, p)
            [] op = "add" -> Intercept_add(s, right, p)
            [] op = "sub" -> Intercept_sub(s, right, p))
    [] class = "ConductorExtent" -> ApplyExtentOp(op, s, right)

\* the arrays of the left operand that the operator hands to the
\* constructor as they are
SharedAttrs(class, op) ==
  CASE class = "Delta" /\ op = "neg" -> {"vs"}
    [] class = "Distance" /\ op = "sub" -> {"distance"}
    [] class = "Intercept" /\ op = "neg" -> {"xi", "yi", "zi", "iphi"}
    [] OTHER -> {}

\* the attribute of the new object that the operator assigns after the
\* constructor has returned
AssignedAttrs(class, op) ==
  CASE class = "Delta" /\ op = "sub" -> {"dels"}
    [] class = "Distance" /\ op \in {"add", "sub"} -> {"distance"}
    [] OTHER -> {}

\* op applied to the objects i and j
Operated(h, op, i, j) ==
  LET class == h.objs[i].class
      new == Len(h.objs) + 1
  IN  \* the constructor call, then the assignments to the new object
      LET made ==
            NewObject(h, class,
                      ApplyOp(class, op, Held(h, i), Held(h, j), h.pt),
                      [a \in SharedAttrs(class, op) |-> h.objs[i].refs[a]])
      IN  IF AssignedAttrs(class, op) = {} THEN made
          ELSE LET attr == CHOOSE a \in AssignedAttrs(class, op) : TRUE
               IN  Rebind(made, new, attr,
                          ApplyOp(class, op, Held(h, i), Held(h, j),
                                  h.pt)[attr])

OperandShapes == <<QBoxA, QPlaneP>>
OperandPoints == {<<0, 0, -2>>, <<0, 0, 0>>, <<2, 0, 1>>}

\* the result the generator of primitive a gives at the point p
Generated(class, a, p, v) ==
  CASE class = "Delta" -> DeltaGen(a, p)
    [] class = "Distance" -> [distance |-> generatord(a, p)]
    [] class = "IsInside" -> IsInsideGen(a, p, 0)
    [] class = "Intercept" -> generatori(a, p, v)
    [] class = "ConductorExtent" -> getextent(a)

NoObjects(p) ==
  [arrays |-> <<>>, objs |-> <<>>, pt |-> p, calls |-> 0, last |-> NoExtentOp]

InitOperands ==
  /\ \E class \in ResultClasses, p \in OperandPoints, v \in QVels :
       /\ class # "Intercept" => v = <<0, 0, 1>>
       /\ heap = NewObject(
                   NewObject(NoObjects(p), class,
                             Generated(class, OperandShapes[1], p, v),
                             [a \in {} |-> 0]),
                   class, Generated(class, OperandShapes[2], p, v),
                   [a \in {} |-> 0])
  /\ nextcondid = Idle /\ listofallconductors = Idle
  /\ griddzkludge = Idle /\ workers = Idle
  /\ query = Idle /\ grid = Idle /\ conductors = Idle /\ rzdb = Idle
  /\ solver = Idle /\ installedconductors = Idle /\ delta = Idle
  /\ srfrv = Idle

\* -s, s + right, s * right, s - right on two objects of the heap
Operate ==
  /\ heap.calls < MaxOperations
  /\ \E op \in ExtentOps, i \in 1..Len(heap.objs), j \in 1..Len(heap.objs) :
       /\ op = "neg" => j = i
       /\ heap' = [Operated(heap, op, i, j) EXCEPT
                     !.last = [op |-> op, left |-> i, right |-> j],
                     !.calls = @ + 1]
  /\ ExtentFrame

NextOperands == Operate

SpecOperands == InitOperands /\ [][NextOperands]_vars

(* C27: a combination operator (AND, OR, MINUS, NOT) on Delta, Distance,   *)
(* IsInside, Intercept or ConductorExtent objects returns a new object and *)
(* leaves what every object that existed holds, both operands included,    *)
(* unchanged: its distances, voltages, conductor ids, flags and extents.   *)
C27_OperandsUnchanged ==
  [][heap'.calls = heap.calls + 1 =>
       /\ Len(heap'.objs) = Len(heap.objs) + 1
       /\ \A o \in 1..Len(heap.objs) :
            /\ heap'.objs[o] = heap.objs[o]
            /\ Held(heap', o) = Held(heap, o)]_vars

C27_Witness ==
  /\ heap.calls = 1
  /\ heap.last = [op |-> "sub", left |-> 1, right |-> 2]
  /\ heap.objs[1].class = "Distance"
  /\ heap.objs[3].refs.distance # heap.objs[1].refs.distance
  /\ Held(heap, 3).distance # Held(heap, 1).distance
  /\ Held(heap, 1).distance = generatord(QBoxA, heap.pt)

-----------------------------------------------------------------------------
(* ParticleScraper.savecondid on the ranks of a parallel run.  Each rank   *)
(* holds its own lost particles; what it does for a conductor depends on   *)
(* how many of them are near the conductor and how many are inside it.     *)
(* parallelsum is the sum over all ranks: the k-th call of a rank returns  *)
(* when every rank has made its k-th call, with the sum of the arguments.  *)

MaxLost == 1

Ranks == {"rank0", "rank1"}

\* the condid of the conductors of the scraper, in the order of
\* self.conductors
ScraperConductors == <<1, 2>>
ConductorIndex == 1..Len(ScraperConductors)

\* the local counts of a rank: lost particles, and per conductor those near
\* it and those inside it
LocalCounts ==
  {l \in [npslost : 0..MaxLost, near : [ConductorIndex -> 0..MaxLost],
          inside : [ConductorIndex -> 0..MaxLost]] :
     \A c \in ConductorIndex :
       l.inside[c] <= l.near[c] /\ l.near[c] <= l.npslost}

InitScraper ==
  /\ \E lcollectlpdata \in BOOLEAN, local \in BOOLEAN,
        loc \in [Ranks -> LocalCounts] :
       workers = [r \in Ranks |->
                    [lcollectlpdata |-> lcollectlpdata, local |-> local,
                     loc |-> loc[r], pc |-> "start", c |-> 1,
                     calls |-> <<>>, path |-> "none", data |-> <<>>]]
  /\ griddzkludge = Idle /\ heap = Idle /\ nextcondid = Idle
  /\ listofallconductors = Idle /\ grid = Idle
  /\ query = Idle /\ conductors = Idle /\ rzdb = Idle /\ solver = Idle
  /\ installedconductors = Idle /\ delta = Idle /\ srfrv = Idle

ScraperFrame ==
  UNCHANGED <<query, grid, conductors, rzdb, solver, installedconductors,
              delta, srfrv, heap, nextcondid, listofallconductors,
              griddzkludge>>

\* a zero is added to the sum where the rank has nothing for the conductor
Coordinates_never(lcollectlpdata, local) == FALSE

Coordinates(lcollectlpdata, local) == lcollectlpdata /\ ~local

\* the rank goes on to the next conductor, or returns
Advance(w, resume) ==
  [w EXCEPT !.c = @ + 1,
            !.pc = IF w.c = Len(ScraperConductors) THEN "done" ELSE resume]

\* the rank calls parallelsum(x) for its conductor
Call_parallelsum(w, x, path) ==
  [w EXCEPT !.calls = Append(@, [c |-> ScraperConductors[w.c], w |-> x]),
            !.pc = "wait", !.path = path]

RECURSIVE Total(_, _, _)
Total(S, ws, k) ==
  IF S = {} THEN 0
  ELSE LET s == CHOOSE x \in S : TRUE
       IN  ws[s].calls[k].w + Total(S \ {s}, ws, k)

\* the value the k-th parallelsum returns
parallelsum(ws, k) == Total(Ranks, ws, k)

\* every rank has made its k-th call
Arrived(ws, k) == \A s \in Ranks : Len(ws[s].calls) >= k

LostRecord(w, x) == [c |-> ScraperConductors[w.c], w |-> x]

\* savecondid starts: without lost particles the rank only adds its zeros
Enter(r) ==
  /\ workers[r].pc = "start"
  /\ workers' = [workers EXCEPT ![r].pc =
       IF workers[r].loc.npslost = 0
         THEN IF /\ workers[r].lcollectlpdata /\ ~workers[r].local
                THEN "nolost" ELSE "done"
         ELSE "loop"]
  /\ ScraperFrame

\* no lost particles: parallelsum(0.) for the conductor
SumNoLost(r) ==
  /\ workers[r].pc = "nolost"
  /\ workers' = [workers EXCEPT ![r] = Call_parallelsum(@, 0, "nolost")]
  /\ ScraperFrame

\* no particle near the conductor
NoneNear(r) ==
  /\ workers[r].pc = "loop"
  /\ workers[r].loc.near[workers[r].c] = 0
  /\ workers' = [workers EXCEPT ![r] =
       IF Coordinates(@.lcollectlpdata, @.local)
         THEN Call_parallelsum(@, 0, "loop") ELSE Advance(@, "loop")]
  /\ ScraperFrame

\* particles near the conductor, none inside it
NoneInside(r) ==
  /\ workers[r].pc = "loop"
  /\ workers[r].loc.near[workers[r].c] > 0
  /\ workers[r].loc.inside[workers[r].c] = 0
  /\ workers' = [workers EXCEPT ![r] =
       IF Coordinates(@.lcollectlpdata, @.local)
         THEN Call_parallelsum(@, 0, "loop") ELSE Advance(@, "loop")]
  /\ ScraperFrame

\* particles inside the conductor: their number is summed and recorded
Inside(r) ==
  /\ workers[r].pc = "loop"
  /\ workers[r].loc.inside[workers[r].c] > 0
  /\ workers' = [workers EXCEPT ![r] =
       IF ~@.lcollectlpdata THEN Advance(@, "loop")
       ELSE IF ~@.local
         THEN Call_parallelsum(@, @.loc.inside[@.c], "inside")
         ELSE Advance([@ EXCEPT !.data =
                         Append(@, LostRecord(workers[r],
                                              workers[r].loc.inside[
                                                workers[r].c]))],
                      "loop")]
  /\ ScraperFrame

\* the parallelsum returns; a sum of the zero paths is recorded if nonzero
Return(r) ==
  /\ workers[r].pc = "wait"
  /\ Arrived(workers, Len(workers[r].calls))
  /\ \E x \in {parallelsum(workers, Len(workers[r].calls))} :
       workers' = [workers EXCEPT ![r] =
         Advance([@ EXCEPT !.data =
                    IF workers[r].path = "inside" \/ x # 0
                      THEN Append(@, LostRecord(workers[r], x)) ELSE @],
                 IF workers[r].path = "nolost" THEN "nolost" ELSE "loop")]
  /\ ScraperFrame

RankStep(r) ==
  \/ Enter(r) \/ SumNoLost(r) \/ NoneNear(r) \/ NoneInside(r)
  \/ Inside(r) \/ Return(r)

NextScraper == \E r \in Ranks : RankStep(r)

SpecScraper == InitScraper /\ [][NextScraper]_vars

\* every rank is a process of its own and keeps running
SpecScraperFair == SpecScraper /\ \A r \in Ranks : WF_vars(RankStep(r))

\* the conductors a rank has called parallelsum for, in order
SummedFor(w) == [k \in 1..Len(w.calls) |-> w.calls[k].c]

\* the call is made with lcollectlpdata set and local false
Collecting ==
  \A r \in Ranks : workers[r].lcollectlpdata /\ ~workers[r].local

=============================================================================
